---- MODULE Spec2Model ----
(***************************************************************************)
(* A model of the dependency-graph scheduler of srohatgi/graph:            *)
(*   Lib.Sync, check, checkField, copyValue, Lib.createSync, execute,      *)
(*   reverse, Lib.deleteSync          (src/unnamed/part_000)               *)
(*   sort                             (src/unnamed/part_009)               *)
(*   graph, addEdge, adjascent        (src/unnamed/part_005)               *)
(*   buildGraph                       (src/unnamed/part_007)               *)
(* and of its supporting utilities, each with a specification of its own:  *)
(*   Waiter.WaitWithContext, sleepWithContext   (src/waiter.go)            *)
(*   place, start, stop                         (src/worker.go)            *)
(*   ErrorMap                                   (src/unnamed/part_000)     *)
(*                                                                         *)
(* Input domain.  Resources are identified by their index in the slice     *)
(* handed to Sync, and resource i carries the name i: names are unique in  *)
(* one slice, which is the precondition the library documents ("Name is    *)
(* expected to be unique in a given slice of Resource's",                  *)
(* src/unnamed/part_007:54).  Every Resource is a pointer to a struct (as  *)
(* MakeResource builds it) and every struct field is a string-like value,  *)
(* so the reflect kind checks of check() pass and Set() is well typed.     *)
(***************************************************************************)
EXTENDS Integers, Sequences, FiniteSets, TLC

(***************************************************************************)
(* Bounds of the model.                                                    *)
(***************************************************************************)
\* number of resources in the slice handed to Sync
NumResources == 3
\* total number of Dependency entries declared in the slice
MaxDeps == 2
\* vertices and addEdge calls of the graphs handed to sort on its own
NumVertices == 3
MaxEdges == 3
\* the largest MaxAttempts a Waiter is configured with, and the longest list
\* of acceptors
MaxWaitAttempts == 3
MaxAcceptors == 2
\* the worker pool: the number of workers start creates, the capacity of
\* workQ, and the number of tasks handed to place
NoOfWorkers == 3
MaxWorkQSize == 2
MaxTasks == 6
\* the keys an ErrorMap is given entries for
MaxKeys == 3
\* the calls of Sync the caller's loop makes on one resource set
MaxSyncCalls == 2

Idx == 0 .. NumResources - 1

\* a resource name that no resource of the slice carries
MissingName == NumResources

ResourceName(i) == i

(***************************************************************************)
(* The backing structs of the resources, after the test fixtures: kinesis  *)
(* has Arn, deployment has KinesisArn, dynamo has no field.  The second    *)
(* kind has both fields so that values can travel along a chain.           *)
(***************************************************************************)
StructFields(i) ==
    CASE i % 4 = 0 -> {"Arn"}
      [] i % 4 = 1 -> {"Arn", "KinesisArn"}
      [] i % 4 = 2 -> {"KinesisArn"}
      [] OTHER     -> {}

\* the zero value of a field and the value resource i's Update produces
ZeroValue == 0
ProducedValue(i) == i + 1

FieldPairs == {<<"", "">>, <<"Arn", "KinesisArn">>, <<"Arn", "">>, <<"", "KinesisArn">>}

DepValues ==
    {[FromResource |-> n, FromField |-> p[1], ToField |-> p[2]] :
        n \in 0 .. NumResources, p \in FieldPairs}

\* every way of declaring at most k dependencies over the slice
RECURSIVE DepConfigs(_)
DepConfigs(k) ==
    IF k = 0 THEN {[i \in Idx |-> <<>>]}
    ELSE LET prev == DepConfigs(k - 1)
         IN  prev \cup {[c EXCEPT ![i] = Append(@, d)] :
                            c \in prev, i \in Idx, d \in DepValues}

StatusValues == {"", "ok"}

VARIABLES
    resources,     \* the slice handed to Sync: resources[i].Dependencies
    toDelete,      \* Sync's toDelete argument
    pc,            \* position of the coordinating flow
    g,             \* the graph: g[v] is the adjacency list of v
    neighbours,    \* sort: vertex -> count of incoming edges
    sorted,        \* sort: the list built so far
    ordered,       \* createSync/deleteSync: the order in use
    resourcesLeft,
    maxAttempts,
    buildCache,    \* name -> index of the built resource
    status,        \* name -> status string
    err,           \* the error Sync is about to return / has returned
    execList,      \* the wave's execution list
    task,          \* per resource: the goroutine running execute()
    output,        \* per resource of the wave: its builderOutput
    fields,        \* the fields of each resource's backing struct
    pos,           \* deleteSync: position of the range loop in the order
    wave,          \* history: number of waves started
    hist,          \* history: per resource, what has been called on it
    delLog,        \* history: the resources Delete was invoked on, in order
    waiter,        \* the Waiter that WaitWithContext is called on (w)
    ctx,           \* the context handed to WaitWithContext
    wpc,           \* position of WaitWithContext
    attempt,       \* WaitWithContext: the loop variable
    obs,           \* WaitWithContext: the value ExecuteAction returned (i)
    timer,         \* sleepWithContext: the timer t
    werr,          \* the error WaitWithContext has returned
    whist,         \* history of the call of WaitWithContext
    workQ,         \* the worker pool's channel: the tasks buffered in it
    closed,        \* whether workQ has been closed
    wg,            \* the counter of the pool's WaitGroup
    worker,        \* per worker: the goroutine started by start()
    caller,        \* position of the goroutine that calls start, place, stop
    phist,         \* history of the pool: what was placed, taken and run
    em,            \* an *ErrorMap: the pointer and the map it points to
    got,           \* what the last method called on em returned
    ehist,         \* history of em: the keys that were given an error
    plan,          \* per resource: what its Update returns when it is invoked
    kept,          \* what createSync returns under plan
    variant,       \* what createSync returns under plan with a full scan
    ctxt,          \* the context handed to Sync: "live" or "cancelled"
    earlier        \* history: what the earlier calls of Sync did and returned

syncVars == <<resources, toDelete, pc, g, neighbours, sorted, ordered, resourcesLeft,
              maxAttempts, buildCache, status, err, execList, task, output, fields,
              pos, wave, hist, delLog>>

waitVars == <<waiter, ctx, wpc, attempt, obs, timer, werr, whist>>

poolVars == <<workQ, closed, wg, worker, caller, phist>>

errorMapVars == <<em, got, ehist>>

scanVars == <<plan, kept, variant>>

vars == <<syncVars, waitVars, poolVars, errorMapVars, scanVars, ctxt, earlier>>

\* what the steps of Sync and of sort leave alone
notSync == <<waitVars, poolVars, errorMapVars, scanVars, ctxt, earlier>>

\* what the steps of WaitWithContext leave alone
notWait == <<syncVars, poolVars, errorMapVars, scanVars, ctxt, earlier>>

\* what the steps of the worker pool leave alone
notPool == <<syncVars, waitVars, errorMapVars, scanVars, ctxt, earlier>>

\* what the methods of ErrorMap leave alone
notErrorMap == <<syncVars, waitVars, poolVars, scanVars, ctxt, earlier>>

\* what the comparison of the two scans leaves alone
notScan == <<syncVars, waitVars, poolVars, errorMapVars, ctxt, earlier>>

(***************************************************************************)
(* Errors.                                                                 *)
(***************************************************************************)
NilError == [kind |-> "nil", msg |-> "", keys |-> {}]
ValidationError(m) == [kind |-> "validation", msg |-> m, keys |-> {}]
ExhaustedError ==
    [kind |-> "errors.New",
     msg |-> "max attempts at computing resources exhausted, giving up",
     keys |-> {}]
\* the errorMap of a wave: one entry per name
ErrorMapOf(names) == [kind |-> "errorMap", msg |-> "", keys |-> names]
DeleteError(i) == [kind |-> "delete", msg |-> "delete failed", keys |-> {i}]

(***************************************************************************)
(* check and checkField.                                                   *)
(***************************************************************************)
\* a checkField that finds every field
checkField_FindsAnyField(r, field) == "nil"

checkField(r, field) ==
    IF field = "" THEN "nil"
    ELSE IF field \in StructFields(r) THEN "nil"
    ELSE "did not find field"

\* the cache of check(): name -> resource; the last resource of a name wins
CacheNames(rs) == {ResourceName(i) : i \in DOMAIN rs}
CacheLookup(rs, name) == CHOOSE i \in DOMAIN rs : ResourceName(i) = name

\* a dependency check without the lookup of FromResource in the cache
DepError_SkipsLookup(rs, r, dep) ==
    IF \/ (dep.ToField = "" /\ dep.FromField # "")
       \/ (dep.ToField # "" /\ dep.FromField = "")
    THEN "incorrect specification of dependency"
    ELSE IF dep.ToField # "" /\ dep.ToField \notin StructFields(r) THEN "did not find field"
    ELSE IF dep.FromResource \notin {ResourceName(i) : i \in DOMAIN rs} THEN "nil"
    ELSE IF dep.FromField # "" /\ dep.FromField \notin StructFields(dep.FromResource)
         THEN "did not find field"
         ELSE "nil"

\* the error the body of the "validate each dependency" loop returns for dep
DepError(rs, r, dep) ==
    IF \/ (dep.ToField = "" /\ dep.FromField # "")
       \/ (dep.ToField # "" /\ dep.FromField = "")
    THEN "incorrect specification of dependency"
    ELSE IF checkField(r, dep.ToField) # "nil" THEN checkField(r, dep.ToField)
    ELSE IF dep.FromResource \notin CacheNames(rs) THEN "Dependent resource doesn't exist"
    ELSE checkField(CacheLookup(rs, dep.FromResource), dep.FromField)

RECURSIVE FirstDepError(_, _, _)
FirstDepError(rs, r, k) ==
    IF k > Len(rs[r].Dependencies) THEN "nil"
    ELSE LET e == DepError(rs, r, rs[r].Dependencies[k])
         IN  IF e # "nil" THEN e ELSE FirstDepError(rs, r, k + 1)

\* check ranges over a map, in any order: it returns the error of whichever
\* offending resource the iteration meets first, and nil if there is none
check(rs) ==
    LET bad == {r \in DOMAIN rs : FirstDepError(rs, r, 1) # "nil"}
    IN  IF bad = {} THEN {NilError}
        ELSE {ValidationError(FirstDepError(rs, r, 1)) : r \in bad}

(***************************************************************************)
(* buildGraph: an edge from each dependency to its dependent.              *)
(***************************************************************************)
\* indexes[name]; a Go map yields the zero value for a missing key
indexes(rs, name) ==
    IF name \in CacheNames(rs) THEN CacheLookup(rs, name) ELSE 0

parents(rs, i) ==
    [k \in 1 .. Len(rs[i].Dependencies) |-> indexes(rs, rs[i].Dependencies[k].FromResource)]

\* the addEdge(v, w) calls, as <<v, w>> pairs
RECURSIVE EdgeList(_, _)
EdgeList(rs, w) ==
    IF w \notin DOMAIN rs THEN <<>>
    ELSE [k \in 1 .. Len(parents(rs, w)) |-> <<parents(rs, w)[k], w>>] \o EdgeList(rs, w + 1)

\* the graph after the addEdge calls of edges, in order
addEdges(n, edges) ==
    [v \in 0 .. n - 1 |->
        LET es == SelectSeq(edges, LAMBDA e : e[1] = v)
        IN  [k \in 1 .. Len(es) |-> es[k][2]]]

buildGraph(rs) == addEdges(NumResources, EdgeList(rs, 0))

vertices(gr) == Cardinality(DOMAIN gr)

(***************************************************************************)
(* sort.                                                                   *)
(***************************************************************************)
Count(seq, x) == Cardinality({k \in 1 .. Len(seq) : seq[k] = x})

RECURSIVE CountInto(_, _, _)
CountInto(gr, v, w) ==
    IF w >= vertices(gr) THEN 0
    ELSE (IF w = v THEN 0 ELSE Count(gr[w], v)) + CountInto(gr, v, w + 1)

\* the neighbours map after the counting loops
initNeighbours(gr) == [v \in DOMAIN gr |-> CountInto(gr, v, 0)]

\* neighbours[w]-- : a missing key is inserted with the zero value first
Decrement(nb, w) ==
    IF w \in DOMAIN nb THEN [nb EXCEPT ![w] = @ - 1]
    ELSE [x \in DOMAIN nb \cup {w} |-> IF x = w THEN -1 ELSE nb[x]]

RECURSIVE DecrementAll(_, _, _)
DecrementAll(nb, adj, k) ==
    IF k > Len(adj) THEN nb
    ELSE DecrementAll(Decrement(nb, adj[k]), adj, k + 1)

DeleteKey(nb, v) == [x \in DOMAIN nb \ {v} |-> nb[x]]

\* a scan that stops at the first vertex, whatever its count
ZeroVertices_AnyVertex(nb) == DOMAIN nb

\* the vertices the scan of neighbours can stop at
ZeroVertices(nb) == {v \in DOMAIN nb : nb[v] = 0}


(***************************************************************************)
(* copyValue, and the scan of createSync that builds a wave.               *)
(***************************************************************************)
\* reflect panics when the source resource is nil or a named field is absent
copyValuePanics(to, toField, from, fromField) ==
    /\ toField # "" /\ fromField # ""
    /\ \/ from \notin Idx
       \/ fromField \notin StructFields(from)
       \/ toField \notin StructFields(to)

\* a copyValue that writes nothing
copyValue_NoWrite(fs, to, toField, from, fromField) == fs

\* a copyValue that copies the other way round, into the resource it reads
copyValue_WritesSource(fs, to, toField, from, fromField) ==
    IF toField = "" \/ fromField = "" THEN fs
    ELSE [fs EXCEPT ![from][fromField] = fs[to][toField]]

\* the fields of all resources after copyValue(to, toField, from, fromField)
copyValue(fs, to, toField, from, fromField) ==
    IF toField = "" \/ fromField = "" THEN fs
    ELSE [fs EXCEPT ![to][toField] = fs[from][fromField]]

\* cache[name]: nil (here -1) when the name has no entry
CacheGet(cache, name) == IF name \in DOMAIN cache THEN cache[name] ELSE -1

\* a readiness test that never looks at buildCache
ready_Always(rs, cache, i) == TRUE

\* a readiness test that does not wait for the resource itself
ready_IgnoresSelf(rs, cache, i) ==
    \A k \in 1 .. Len(rs[i].Dependencies) :
        \/ rs[i].Dependencies[k].FromResource \in DOMAIN cache
        \/ rs[i].Dependencies[k].FromResource = ResourceName(i)

\* ready: every dependency's FromResource is found in buildCache
ready(rs, cache, i) ==
    \A k \in 1 .. Len(rs[i].Dependencies) :
        rs[i].Dependencies[k].FromResource \in DOMAIN cache

\* a scan that looks at the first resource of the order only
scanOrdered_FirstOnly(rs, ord, cache, k) ==
    IF ord # <<>> /\ ResourceName(ord[1]) \notin DOMAIN cache /\ ready(rs, cache, ord[1])
    THEN <<ord[1]>> ELSE <<>>

\* a scan without the `continue` on resources found in buildCache
RECURSIVE scanOrdered_RescansBuilt(_, _, _, _)
scanOrdered_RescansBuilt(rs, ord, cache, k) ==
    IF k > Len(ord) THEN <<>>
    ELSE IF ~ready(rs, cache, ord[k]) THEN <<>>
    ELSE <<ord[k]>> \o scanOrdered_RescansBuilt(rs, ord, cache, k + 1)

\* a scan with `continue` in the place of the `break` at a resource that is
\* not ready: every ready, not yet built resource of the order is taken
RECURSIVE scanOrdered_FullScan(_, _, _, _)
scanOrdered_FullScan(rs, ord, cache, k) ==
    IF k > Len(ord) THEN <<>>
    ELSE IF ResourceName(ord[k]) \in DOMAIN cache \/ ~ready(rs, cache, ord[k])
         THEN scanOrdered_FullScan(rs, ord, cache, k + 1)
         ELSE <<ord[k]>> \o scanOrdered_FullScan(rs, ord, cache, k + 1)

\* the execList of a wave: the loop over ordered, from position k on
RECURSIVE scanOrdered(_, _, _, _)
scanOrdered(rs, ord, cache, k) ==
    IF k > Len(ord) THEN <<>>
    ELSE LET i == ord[k]
         IN  IF ResourceName(i) \in DOMAIN cache
             THEN scanOrdered(rs, ord, cache, k + 1)          \* continue
             ELSE IF ~ready(rs, cache, i) THEN <<>>            \* break
             ELSE <<i>> \o scanOrdered(rs, ord, cache, k + 1)

\* reverse: swap in[i] and in[len-1-i] for i = len/2-1 down to 0
RECURSIVE reverseFrom(_, _)
reverseFrom(in, i) ==
    IF i < 0 THEN in
    ELSE LET opp == Len(in) - 1 - i
         IN  reverseFrom([in EXCEPT ![i + 1] = in[opp + 1], ![opp + 1] = in[i + 1]], i - 1)

\* a reverse that leaves the order as sort returned it
reverse_Unchanged(in) == in

reverse(in) == reverseFrom(in, (Len(in) \div 2) - 1)

Range(seq) == {seq[k] : k \in 1 .. Len(seq)}

EmptyMap == [x \in {} |-> 0]

IdleTask == [pc |-> "none", k |-> 0]

InitFields == [i \in Idx |-> [f \in StructFields(i) |-> ZeroValue]]

InitHist ==
    [i \in Idx |->
        [calls |-> 0, wave |-> 0, result |-> "none", status |-> "", copies |-> 0,
         atInvoke |-> InitFields[i], atReturn |-> InitFields[i], deletes |-> 0,
         deleteFailed |-> FALSE]]

(***************************************************************************)
(* A Waiter on which WaitWithContext is not called.                        *)
(***************************************************************************)
NoWaitHist ==
    [calls |-> 0, sleeps |-> 0, sleepErr |-> "nil", cancelledIn |-> 0, raced |-> FALSE,
     cancelledBeforeCall |-> FALSE]

WaitIdle ==
    /\ waiter = [Acceptors |-> <<>>, MaxAttempts |-> 0, SleepWithContext |-> "nil"]
    /\ ctx = [done |-> FALSE, err |-> "nil"]
    /\ wpc = "idle"
    /\ attempt = 0
    /\ obs = "none"
    /\ timer = "none"
    /\ werr = "nil"
    /\ whist = NoWaitHist

(***************************************************************************)
(* The worker pool as the package initialises it: an open, empty workQ     *)
(* and no worker.                                                          *)
(***************************************************************************)
Workers == 1 .. NoOfWorkers

Tasks == 1 .. MaxTasks

NoPoolHist ==
    [placed |-> <<>>, taken |-> <<>>,
     runs |-> [t \in Tasks |-> 0], done |-> [t \in Tasks |-> 0],
     by |-> [t \in Tasks |-> {}]]

PoolIdle ==
    /\ workQ = <<>>
    /\ closed = FALSE
    /\ wg = 0
    /\ worker = [n \in Workers |-> [pc |-> "none", work |-> 0]]
    /\ caller = [pc |-> "idle", i |-> 0]
    /\ phist = NoPoolHist

(***************************************************************************)
(* ErrorMap (src/unnamed/part_000): a pointer to a map from int to error.  *)
(* The pointer may be nil; the map it points to may be the nil map.        *)
(***************************************************************************)
NilPointer == [ptr |-> "nil", made |-> FALSE, m |-> EmptyMap]

\* "var es ErrorMap": a pointer to the nil map
NilMap == [ptr |-> "set", made |-> FALSE, m |-> EmptyMap]

\* "em := ErrorMap{}"
EmptyErrorMap == [ptr |-> "set", made |-> TRUE, m |-> EmptyMap]

NoResult == [op |-> "none", val |-> "none"]

ErrorMapIdle ==
    /\ em = NilPointer
    /\ got = NoResult
    /\ ehist = {}

\* createSync has not been run
NoRun == [returned |-> FALSE, status |-> EmptyMap, err |-> NilError, lists |-> <<>>]

ScanIdle ==
    /\ plan = EmptyMap
    /\ kept = NoRun
    /\ variant = NoRun

(***************************************************************************)
(* The state before Sync is called.                                        *)
(***************************************************************************)
Init ==
    /\ resources \in {[i \in Idx |-> [Name |-> ResourceName(i), Dependencies |-> c[i]]] :
                         c \in DepConfigs(MaxDeps)}
    /\ toDelete \in BOOLEAN
    /\ pc = "Sync"
    /\ g = [v \in Idx |-> <<>>]
    /\ neighbours = EmptyMap
    /\ sorted = <<>>
    /\ ordered = <<>>
    /\ resourcesLeft = 0
    /\ maxAttempts = 0
    /\ buildCache = EmptyMap
    /\ status = EmptyMap
    /\ err = NilError
    /\ execList = <<>>
    /\ task = [i \in Idx |-> IdleTask]
    /\ output = EmptyMap
    /\ fields = InitFields
    /\ pos = 0
    /\ wave = 0
    /\ hist = InitHist
    /\ delLog = <<>>
    /\ WaitIdle
    /\ PoolIdle
    /\ ErrorMapIdle
    /\ ScanIdle
    /\ ctxt = "live"
    /\ earlier = <<>>

(***************************************************************************)
(* Lib.Sync: check, then buildGraph, then the counting loops of sort.      *)
(***************************************************************************)
SyncInvalid ==
    /\ pc = "Sync"
    /\ \E e \in check(resources) :
           /\ e # NilError
           /\ err' = e
    /\ pc' = "done"
    /\ UNCHANGED notSync
    /\ UNCHANGED <<resources, toDelete, g, neighbours, sorted, ordered, resourcesLeft,
                   maxAttempts, buildCache, status, execList, task, output, fields,
                   pos, wave, hist, delLog>>

SyncValid ==
    /\ pc = "Sync"
    /\ NilError \in check(resources)
    /\ g' = buildGraph(resources)
    /\ neighbours' = initNeighbours(g')
    /\ sorted' = <<>>
    /\ pc' = "sort"
    /\ UNCHANGED notSync
    /\ UNCHANGED <<resources, toDelete, ordered, resourcesLeft, maxAttempts, buildCache,
                   status, err, execList, task, output, fields, pos, wave, hist, delLog>>

(***************************************************************************)
(* sort: one iteration of the loop "for len(neighbours) != 0".             *)
(***************************************************************************)
SortStep ==
    /\ pc = "sort"
    /\ DOMAIN neighbours # {}
    /\ \E toRemove \in ZeroVertices(neighbours) :
           /\ neighbours' = DeleteKey(DecrementAll(neighbours, g[toRemove], 1), toRemove)
           /\ sorted' = Append(sorted, toRemove)
    /\ UNCHANGED notSync
    /\ UNCHANGED <<resources, toDelete, pc, g, ordered, resourcesLeft, maxAttempts,
                   buildCache, status, err, execList, task, output, fields, pos, wave,
                   hist, delLog>>

\* no vertex has count 0: toRemove stays -1 and g.adjascent(-1) indexes
\* g.adj out of range, a run-time panic
SortPanic ==
    /\ pc = "sort"
    /\ DOMAIN neighbours # {}
    /\ ZeroVertices(neighbours) = {}
    /\ pc' = "panic"
    /\ UNCHANGED notSync
    /\ UNCHANGED <<resources, toDelete, g, neighbours, sorted, ordered, resourcesLeft,
                   maxAttempts, buildCache, status, err, execList, task, output, fields,
                   pos, wave, hist, delLog>>

(***************************************************************************)
(* Lib.createSync.                                                         *)
(***************************************************************************)
\* a construction that keeps the build cache of the call before
createSyncBegin_KeepsCache ==
    /\ pc = "sort"
    /\ DOMAIN neighbours = {}
    /\ ~toDelete
    /\ ordered' = sorted
    /\ resourcesLeft' = Len(sorted)
    /\ maxAttempts' = Len(sorted)
    /\ status' = EmptyMap
    /\ pc' = "loop"
    /\ UNCHANGED notSync
    /\ UNCHANGED <<resources, toDelete, g, neighbours, sorted, err, execList, task,
                   output, fields, pos, wave, hist, delLog, buildCache>>

createSyncBegin ==
    /\ pc = "sort"
    /\ DOMAIN neighbours = {}
    /\ ~toDelete
    /\ ordered' = sorted
    /\ resourcesLeft' = Len(sorted)
    /\ maxAttempts' = Len(sorted)
    /\ buildCache' = EmptyMap
    /\ status' = EmptyMap
    /\ pc' = "loop"
    /\ UNCHANGED notSync
    /\ UNCHANGED <<resources, toDelete, g, neighbours, sorted, err, execList, task,
                   output, fields, pos, wave, hist, delLog>>

\* a loop that stops one attempt early
LoopGuard_OneAttemptShort == maxAttempts > 1 /\ resourcesLeft > 0 /\ err = NilError

\* a loop that goes on after a wave has recorded errors
LoopGuard_IgnoresErr == maxAttempts > 0 /\ resourcesLeft > 0

\* the condition of the loop over the waves
LoopGuard == maxAttempts > 0 /\ resourcesLeft > 0 /\ err = NilError

\* the head of a wave: build execList and start one goroutine per entry
WaveStart ==
    /\ pc = "loop"
    /\ LoopGuard
    /\ maxAttempts' = maxAttempts - 1
    /\ execList' = scanOrdered(resources, ordered, buildCache, 1)
    /\ task' = [i \in Idx |-> IF i \in Range(execList')
                              THEN [pc |-> "copy", k |-> 1] ELSE IdleTask]
    /\ output' = EmptyMap
    /\ wave' = wave + 1
    /\ pc' = "wait"
    /\ UNCHANGED notSync
    /\ UNCHANGED <<resources, toDelete, g, neighbours, sorted, ordered, resourcesLeft,
                   buildCache, status, err, fields, pos, hist, delLog>>

\* execute: copyValue for the next dependency of resource i
TaskCopy(i) ==
    /\ pc = "wait"
    /\ task[i].pc = "copy"
    /\ task[i].k <= Len(resources[i].Dependencies)
    /\ LET dep == resources[i].Dependencies[task[i].k]
           from == CacheGet(buildCache, dep.FromResource)
       IN  IF copyValuePanics(i, dep.ToField, from, dep.FromField)
           THEN /\ pc' = "panic"
                /\ UNCHANGED <<fields, task, hist>>
           ELSE /\ fields' = copyValue(fields, i, dep.ToField, from, dep.FromField)
                /\ task' = [task EXCEPT ![i].k = @ + 1]
                /\ hist' = [hist EXCEPT ![i].copies = @ + 1]
                /\ pc' = pc
    /\ UNCHANGED notSync
    /\ UNCHANGED <<resources, toDelete, g, neighbours, sorted, ordered, resourcesLeft,
                   maxAttempts, buildCache, status, err, execList, output, pos, wave,
                   delLog>>

\* execute: r.Update(ctxt) is invoked
TaskInvoke(i) ==
    /\ pc = "wait"
    /\ task[i].pc = "copy"
    /\ task[i].k > Len(resources[i].Dependencies)
    /\ task' = [task EXCEPT ![i].pc = "update"]
    /\ hist' = [hist EXCEPT ![i].calls = @ + 1, ![i].wave = wave,
                            ![i].result = "running", ![i].atInvoke = fields[i]]
    /\ UNCHANGED notSync
    /\ UNCHANGED <<resources, toDelete, pc, g, neighbours, sorted, ordered, resourcesLeft,
                   maxAttempts, buildCache, status, err, execList, output, fields, pos,
                   wave, delLog>>

\* what Update leaves in the struct of resource i: it produces its Arn
UpdateFields(fs, i) ==
    IF "Arn" \in StructFields(i) THEN [fs EXCEPT ![i]["Arn"] = ProducedValue(i)] ELSE fs

\* a goroutine that writes its status into the shared map itself
TaskReturn_RecordsStatus(i) ==
    /\ pc = "wait"
    /\ task[i].pc = "update"
    /\ \E st \in StatusValues, failed \in BOOLEAN :
           /\ output' = (i :> [status |-> st, result |-> failed]) @@ output
           /\ status' = (ResourceName(i) :> st) @@ status
           /\ hist' = [hist EXCEPT ![i].result = IF failed THEN "err" ELSE "ok",
                                   ![i].status = st,
                                   ![i].atReturn = UpdateFields(fields, i)[i]]
    /\ fields' = UpdateFields(fields, i)
    /\ task' = [task EXCEPT ![i].pc = "done"]
    /\ UNCHANGED notSync
    /\ UNCHANGED <<resources, toDelete, pc, g, neighbours, sorted, ordered, resourcesLeft,
                   maxAttempts, buildCache, err, execList, pos, wave, delLog>>

\* r.Update returns (st, error or nil); the goroutine sends it on its channel
TaskReturn(i) ==
    /\ pc = "wait"
    /\ task[i].pc = "update"
    /\ \E st \in StatusValues, failed \in BOOLEAN :
           /\ output' = (i :> [status |-> st, result |-> failed]) @@ output
           /\ hist' = [hist EXCEPT ![i].result = IF failed THEN "err" ELSE "ok",
                                   ![i].status = st,
                                   ![i].atReturn = UpdateFields(fields, i)[i]]
    /\ fields' = UpdateFields(fields, i)
    /\ task' = [task EXCEPT ![i].pc = "done"]
    /\ UNCHANGED notSync
    /\ UNCHANGED <<resources, toDelete, pc, g, neighbours, sorted, ordered, resourcesLeft,
                   maxAttempts, buildCache, status, err, execList, pos, wave, delLog>>

\* a barrier that clears as soon as one goroutine is done
barrierCleared_FirstDone ==
    execList = <<>> \/ \E i \in Range(execList) : task[i].pc = "done"

\* a barrier that a cancelled context releases
barrierCleared_OrCancelled ==
    ctxt = "cancelled" \/ \A i \in Range(execList) : task[i].pc = "done"

\* wg.Wait() returns once every goroutine of the wave has called wg.Done()
barrierCleared == \A i \in Range(execList) : task[i].pc = "done"

\* a loop over the output channels that records no error
waveErrs_None(out) == {}

\* the keys of errs after the loop over the output channels
waveErrs(out) == {ResourceName(i) : i \in {j \in DOMAIN out : out[j].result}}

\* a loop over the output channels that caches failed resources as well
waveBuilt_AlsoFailed(out) == DOMAIN out

\* the resources the loop over the output channels puts in buildCache
waveBuilt(out) == {i \in DOMAIN out : ~out[i].result}

\* a count that takes every resource of the wave for built
leftAfterWave_CountsFailed(left, ex, errs) == left - Len(ex)

\* "resourcesLeft -= len(execList) - len(errs)"
leftAfterWave(left, ex, errs) == left - (Len(ex) - Cardinality(errs))

\* the status mapping after the loop over the output channels: an entry for
\* every output with a status that is not empty
recordStatus(st, out) ==
    LET withStatus == {i \in DOMAIN out : out[i].status # ""}
    IN  [n \in DOMAIN st \cup {ResourceName(i) : i \in withStatus} |->
            IF \E i \in withStatus : ResourceName(i) = n
            THEN out[CHOOSE i \in withStatus : ResourceName(i) = n].status
            ELSE st[n]]

\* buildCache after the loop over the output channels
recordBuilt(cache, out) ==
    LET built == waveBuilt(out)
    IN  [n \in DOMAIN cache \cup {ResourceName(i) : i \in built} |->
            IF \E i \in built : ResourceName(i) = n
            THEN CHOOSE i \in built : ResourceName(i) = n
            ELSE cache[n]]

\* wg.Wait() has returned: read every channel, record status, errors and
\* the build cache, and go back to the loop condition
WaveEnd ==
    /\ pc = "wait"
    /\ barrierCleared
    /\ LET errs == waveErrs(output)
       IN  /\ status' = recordStatus(status, output)
           /\ buildCache' = recordBuilt(buildCache, output)
           /\ resourcesLeft' = leftAfterWave(resourcesLeft, execList, errs)
           /\ err' = IF Cardinality(errs) > 0 THEN ErrorMapOf(errs) ELSE err
    /\ task' = [i \in Idx |-> IdleTask]
    /\ pc' = "loop"
    /\ UNCHANGED notSync
    /\ UNCHANGED <<resources, toDelete, g, neighbours, sorted, ordered, maxAttempts,
                   execList, output, fields, pos, wave, hist, delLog>>

\* a return without the exhaustion test
finalError_NoExhaustion(left, e) == e

\* the error createSync returns once the loop is left
finalError(left, e) == IF left > 0 /\ e = NilError THEN ExhaustedError ELSE e

\* the loop is left: the exhaustion check and the return
createSyncReturn ==
    /\ pc = "loop"
    /\ ~LoopGuard
    /\ err' = finalError(resourcesLeft, err)
    /\ pc' = "done"
    /\ UNCHANGED notSync
    /\ UNCHANGED <<resources, toDelete, g, neighbours, sorted, ordered, resourcesLeft,
                   maxAttempts, buildCache, status, execList, task, output, fields, pos,
                   wave, hist, delLog>>

(***************************************************************************)
(* Lib.deleteSync.                                                         *)
(***************************************************************************)
deleteSyncBegin ==
    /\ pc = "sort"
    /\ DOMAIN neighbours = {}
    /\ toDelete
    /\ ordered' = reverse(sorted)
    /\ pos' = 1
    /\ pc' = "delete"
    /\ UNCHANGED notSync
    /\ UNCHANGED <<resources, toDelete, g, neighbours, sorted, resourcesLeft, maxAttempts,
                   buildCache, status, err, execList, task, output, fields, wave, hist,
                   delLog>>

\* a range loop that goes on whatever Delete returned
deleteBreaks_Never(e) == FALSE

\* "if err != nil { break }"
deleteBreaks(e) == e # NilError

\* one iteration of the range loop: Delete is invoked and returns
DeleteStep ==
    /\ pc = "delete"
    /\ pos <= Len(ordered)
    /\ LET i == ordered[pos]
       IN  /\ delLog' = Append(delLog, i)
           /\ \E failed \in BOOLEAN :
                  /\ hist' = [hist EXCEPT ![i].deletes = @ + 1,
                                          ![i].deleteFailed = failed]
                  /\ err' = IF failed THEN DeleteError(i) ELSE NilError
                  /\ IF deleteBreaks(err')
                     THEN pc' = "done" /\ pos' = pos
                     ELSE pc' = pc /\ pos' = pos + 1
    /\ UNCHANGED notSync
    /\ UNCHANGED <<resources, toDelete, g, neighbours, sorted, ordered, resourcesLeft,
                   maxAttempts, buildCache, status, execList, task, output, fields, wave>>

deleteSyncReturn ==
    /\ pc = "delete"
    /\ pos > Len(ordered)
    /\ pc' = "done"
    /\ UNCHANGED notSync
    /\ UNCHANGED <<resources, toDelete, g, neighbours, sorted, ordered, resourcesLeft,
                   maxAttempts, buildCache, status, err, execList, task, output, fields,
                   pos, wave, hist, delLog>>

\* the owner of the context handed to Sync cancels it; Sync, createSync and
\* deleteSync hand ctxt on to Update and Delete and never look at it
cancelCtxt ==
    /\ pc \in {"Sync", "sort", "loop", "wait", "delete"}
    /\ ctxt = "live"
    /\ ctxt' = "cancelled"
    /\ UNCHANGED <<syncVars, waitVars, poolVars, errorMapVars, scanVars, earlier>>

\* the caller's loop: Sync has returned an error map and is called again with
\* the same resources; the structs keep their fields, everything local to
\* Sync and createSync starts anew
SyncAgain ==
    /\ pc = "done"
    /\ ~toDelete
    /\ err.kind = "errorMap"
    /\ Len(earlier) < MaxSyncCalls - 1
    /\ earlier' = Append(earlier, [hist |-> hist, status |-> status, err |-> err])
    /\ pc' = "Sync"
    /\ g' = [v \in Idx |-> <<>>]
    /\ neighbours' = EmptyMap
    /\ sorted' = <<>>
    /\ ordered' = <<>>
    /\ resourcesLeft' = 0
    /\ maxAttempts' = 0
    /\ err' = NilError
    /\ execList' = <<>>
    /\ task' = [i \in Idx |-> IdleTask]
    /\ output' = EmptyMap
    /\ wave' = 0
    /\ hist' = InitHist
    /\ UNCHANGED <<resources, toDelete, buildCache, status, fields, pos, delLog>>
    /\ UNCHANGED <<waitVars, poolVars, errorMapVars, scanVars, ctxt>>

Next ==
    \/ SyncInvalid
    \/ SyncValid
    \/ SortStep
    \/ SortPanic
    \/ createSyncBegin
    \/ WaveStart
    \/ \E i \in Idx : TaskCopy(i)
    \/ \E i \in Idx : TaskInvoke(i)
    \/ \E i \in Idx : TaskReturn(i)
    \/ WaveEnd
    \/ createSyncReturn
    \/ deleteSyncBegin
    \/ DeleteStep
    \/ deleteSyncReturn
    \/ cancelCtxt

Spec == Init /\ [][Next]_vars

\* Sync called in a loop until it returns no error map
NextAgain ==
    \/ Next
    \/ SyncAgain

SpecAgain == Init /\ [][NextAgain]_vars

\* every goroutine is scheduled and the coordinating flow keeps running
FairSpec == Spec /\ WF_vars(Next)

(***************************************************************************)
(* sort on its own, over every graph that at most MaxEdges addEdge calls   *)
(* build on NumVertices vertices (self-loops and repeated edges included). *)
(***************************************************************************)
RECURSIVE SeqsUpTo(_, _)
SeqsUpTo(S, k) ==
    IF k = 0 THEN {<<>>}
    ELSE LET prev == SeqsUpTo(S, k - 1)
         IN  prev \cup {Append(q, x) : q \in prev, x \in S}

Vertices == 0 .. NumVertices - 1

InitSort ==
    /\ g \in {addEdges(NumVertices, es) : es \in SeqsUpTo(Vertices \X Vertices, MaxEdges)}
    /\ neighbours = initNeighbours(g)
    /\ sorted = <<>>
    /\ pc = "sort"
    /\ resources = [i \in Idx |-> [Name |-> ResourceName(i), Dependencies |-> <<>>]]
    /\ toDelete = FALSE
    /\ ordered = <<>>
    /\ resourcesLeft = 0
    /\ maxAttempts = 0
    /\ buildCache = EmptyMap
    /\ status = EmptyMap
    /\ err = NilError
    /\ execList = <<>>
    /\ task = [i \in Idx |-> IdleTask]
    /\ output = EmptyMap
    /\ fields = InitFields
    /\ pos = 0
    /\ wave = 0
    /\ hist = InitHist
    /\ delLog = <<>>
    /\ WaitIdle
    /\ PoolIdle
    /\ ErrorMapIdle
    /\ ScanIdle
    /\ ctxt = "live"
    /\ earlier = <<>>

\* "return sorted"
SortReturn ==
    /\ pc = "sort"
    /\ DOMAIN neighbours = {}
    /\ pc' = "sorted"
    /\ UNCHANGED notSync
    /\ UNCHANGED <<resources, toDelete, g, neighbours, sorted, ordered, resourcesLeft,
                   maxAttempts, buildCache, status, err, execList, task, output, fields,
                   pos, wave, hist, delLog>>

NextSort ==
    \/ SortStep
    \/ SortPanic
    \/ SortReturn

SpecSort == InitSort /\ [][NextSort]_vars


(***************************************************************************)
(* Waiter.WaitWithContext and sleepWithContext (src/waiter.go).            *)
(*                                                                         *)
(* ExecuteAction returns one of two observations.  A Matcher is the set of *)
(* observations it accepts.  The context may be cancelled by its owner at  *)
(* any moment, before the call included; the timer of a delay fires at any *)
(* moment after it was created.  A select with both channels ready takes   *)
(* either case.                                                            *)
(***************************************************************************)
Observations == {"pending", "ready"}

Matchers == SUBSET Observations

\* ctx.Err() of a cancelled context
CtxErrors == {"context canceled", "context deadline exceeded"}

\* what a SleepWithContext supplied by the caller may return
CustomSleepResults == {"nil", "sleep interrupted"}

\* the loop has no exit on the attempt count when MaxAttempts < 1: the model
\* follows it for this many attempts
AttemptCap == MaxWaitAttempts + 1

SyncIdle ==
    /\ resources = [i \in Idx |-> [Name |-> ResourceName(i), Dependencies |-> <<>>]]
    /\ toDelete = FALSE
    /\ pc = "idle"
    /\ g = [v \in Idx |-> <<>>]
    /\ neighbours = EmptyMap
    /\ sorted = <<>>
    /\ ordered = <<>>
    /\ resourcesLeft = 0
    /\ maxAttempts = 0
    /\ buildCache = EmptyMap
    /\ status = EmptyMap
    /\ err = NilError
    /\ execList = <<>>
    /\ task = [i \in Idx |-> IdleTask]
    /\ output = EmptyMap
    /\ fields = InitFields
    /\ pos = 0
    /\ wave = 0
    /\ hist = InitHist
    /\ delLog = <<>>

InitWait ==
    /\ waiter \in [Acceptors : SeqsUpTo(Matchers, MaxAcceptors),
               MaxAttempts : 0 .. MaxWaitAttempts,
               SleepWithContext : {"nil", "custom"}]
    /\ ctx = [done |-> FALSE, err |-> "nil"]
    /\ wpc = "action"
    /\ attempt = 1
    /\ obs = "none"
    /\ timer = "none"
    /\ werr = "nil"
    /\ whist = NoWaitHist
    /\ SyncIdle
    /\ PoolIdle
    /\ ErrorMapIdle
    /\ ScanIdle
    /\ ctxt = "live"
    /\ earlier = <<>>

\* the owner of the context cancels it (or its deadline passes)
Cancel ==
    /\ wpc # "returned"
    /\ ~ctx.done
    /\ \E e \in CtxErrors : ctx' = [done |-> TRUE, err |-> e]
    /\ whist' = [whist EXCEPT
                    !.cancelledIn = IF wpc = "sleep" /\ timer = "armed" THEN attempt ELSE @,
                    !.cancelledBeforeCall = (whist.calls = 0)]
    /\ UNCHANGED <<waiter, wpc, attempt, obs, timer, werr>>
    /\ UNCHANGED notWait

\* a loop that looks at the context before it invokes the action
ExecuteAction_ChecksContext ==
    /\ wpc = "action"
    /\ attempt <= AttemptCap
    /\ IF ctx.done
       THEN /\ werr' = "waiter context canceled"
            /\ wpc' = "returned"
            /\ UNCHANGED <<obs, whist>>
       ELSE /\ \E o \in Observations : obs' = o
            /\ wpc' = "match"
            /\ whist' = [whist EXCEPT !.calls = @ + 1]
            /\ UNCHANGED werr
    /\ UNCHANGED <<waiter, ctx, attempt, timer>>
    /\ UNCHANGED notWait

\* "i := w.ExecuteAction()"
ExecuteAction ==
    /\ wpc = "action"
    /\ attempt <= AttemptCap
    /\ \E o \in Observations : obs' = o
    /\ wpc' = "match"
    /\ whist' = [whist EXCEPT !.calls = @ + 1]
    /\ UNCHANGED <<waiter, ctx, attempt, timer, werr>>
    /\ UNCHANGED notWait

\* the loop over w.Acceptors: some acceptor matches i
matched(acceptors, i) == \E k \in DOMAIN acceptors : i \in acceptors[k]

\* a loop body that gives up one attempt late
outcome_OneAttemptMore(wt, att, i) ==
    IF matched(wt.Acceptors, i) THEN "nil"
    ELSE IF att = wt.MaxAttempts + 1 THEN "exceeded"
    ELSE "sleep"

\* a loop body that looks at the attempt count before the acceptors
outcome_CountsFirst(wt, att, i) ==
    IF att = wt.MaxAttempts THEN "exceeded"
    ELSE IF matched(wt.Acceptors, i) THEN "nil"
    ELSE "sleep"

\* where the loop body goes once ExecuteAction has returned i
outcome(wt, att, i) ==
    IF matched(wt.Acceptors, i) THEN "nil"
    ELSE IF att = wt.MaxAttempts THEN "exceeded"
    ELSE "sleep"

\* "return nil"
MatchReturn ==
    /\ wpc = "match"
    /\ outcome(waiter, attempt, obs) = "nil"
    /\ werr' = "nil"
    /\ wpc' = "returned"
    /\ UNCHANGED <<waiter, ctx, attempt, obs, timer, whist>>
    /\ UNCHANGED notWait

\* "break", then return fmt.Errorf("exceeded wait attempts")
AttemptsExceeded ==
    /\ wpc = "match"
    /\ outcome(waiter, attempt, obs) = "exceeded"
    /\ werr' = "exceeded wait attempts"
    /\ wpc' = "returned"
    /\ UNCHANGED <<waiter, ctx, attempt, obs, timer, whist>>
    /\ UNCHANGED notWait

\* sleepCtxFn(ctx, w.Delay) is called; sleepWithContext creates its timer
SleepBegin ==
    /\ wpc = "match"
    /\ outcome(waiter, attempt, obs) = "sleep"
    /\ wpc' = "sleep"
    /\ timer' = IF waiter.SleepWithContext = "nil" THEN "armed" ELSE timer
    /\ whist' = [whist EXCEPT !.sleeps = @ + 1]
    /\ UNCHANGED <<waiter, ctx, attempt, obs, werr>>
    /\ UNCHANGED notWait

\* the delay has elapsed: the timer sends on t.C
TimerFire ==
    /\ wpc = "sleep"
    /\ timer = "armed"
    /\ timer' = "fired"
    /\ whist' = [whist EXCEPT !.raced = @ \/ ctx.done]
    /\ UNCHANGED <<waiter, ctx, wpc, attempt, obs, werr>>
    /\ UNCHANGED notWait

\* a caller that goes on to the next attempt whatever the delay returned
sleepFailed_Ignored(e) == FALSE

\* "if err := sleepCtxFn(ctx, w.Delay); err != nil"
sleepFailed(e) == e # "nil"

\* the error WaitWithContext returns when the delay returned an error
canceledError(e) == "waiter context canceled"

\* sleepCtxFn has returned e: return the error, or go to the next attempt
afterSleep(e) ==
    /\ whist' = [whist EXCEPT !.sleepErr = e]
    /\ IF sleepFailed(e)
       THEN /\ werr' = canceledError(e)
            /\ wpc' = "returned"
            /\ attempt' = attempt
       ELSE /\ werr' = werr
            /\ wpc' = "action"
            /\ attempt' = attempt + 1

\* select takes "case <-t.C": sleepWithContext returns nil
SelectTimer ==
    /\ wpc = "sleep"
    /\ waiter.SleepWithContext = "nil"
    /\ timer = "fired"
    /\ timer' = "stopped"
    /\ afterSleep("nil")
    /\ UNCHANGED <<waiter, ctx, obs>>
    /\ UNCHANGED notWait

\* select takes "case <-ctx.Done()": sleepWithContext returns ctx.Err()
SelectDone ==
    /\ wpc = "sleep"
    /\ waiter.SleepWithContext = "nil"
    /\ ctx.done
    /\ timer' = "stopped"
    /\ afterSleep(ctx.err)
    /\ UNCHANGED <<waiter, ctx, obs>>
    /\ UNCHANGED notWait

\* the caller's own SleepWithContext returns
CustomSleepReturn ==
    /\ wpc = "sleep"
    /\ waiter.SleepWithContext = "custom"
    /\ \E e \in CustomSleepResults : afterSleep(e)
    /\ UNCHANGED <<waiter, ctx, obs, timer>>
    /\ UNCHANGED notWait

NextWait ==
    \/ Cancel
    \/ ExecuteAction
    \/ MatchReturn
    \/ AttemptsExceeded
    \/ SleepBegin
    \/ TimerFire
    \/ SelectTimer
    \/ SelectDone
    \/ CustomSleepReturn

SpecWait == InitWait /\ [][NextWait]_vars

\* the action, the matchers and the sleep function return, and a timer fires
\* when its delay has elapsed; nothing obliges the owner of the context to
\* cancel it
FairSpecWait ==
    SpecWait /\ WF_vars(ExecuteAction \/ MatchReturn \/ AttemptsExceeded \/ SleepBegin
                          \/ TimerFire \/ SelectTimer \/ SelectDone \/ CustomSleepReturn)

(***************************************************************************)
(* The worker pool: place, start, stop (src/worker.go).                    *)
(*                                                                         *)
(* One goroutine calls start once, place for the tasks 1, 2, ... in this   *)
(* order (before or after start), and then stop.  run() of a task takes    *)
(* two steps, its start and its return.                                    *)
(***************************************************************************)
InitPool ==
    /\ PoolIdle
    /\ SyncIdle
    /\ WaitIdle
    /\ ErrorMapIdle
    /\ ScanIdle
    /\ ctxt = "live"
    /\ earlier = <<>>

\* a send that never blocks
canSend_Always(q) == TRUE

\* a send on the buffered channel goes through when the buffer has room
canSend(q) == Len(q) < MaxWorkQSize

\* a receive that hands out the value sent last
receive_Newest(q) == [work |-> q[Len(q)], rest |-> SubSeq(q, 1, Len(q) - 1)]

\* a receive from the buffered channel hands out the value sent first
receive(q) == [work |-> Head(q), rest |-> Tail(q)]

\* place: "workQ <- r", which blocks while the buffer is full
place ==
    /\ caller.pc \in {"idle", "started"}
    /\ Len(phist.placed) < MaxTasks
    /\ canSend(workQ)
    /\ LET r == Len(phist.placed) + 1
       IN  /\ workQ' = Append(workQ, r)
           /\ phist' = [phist EXCEPT !.placed = Append(@, r)]
    /\ UNCHANGED <<closed, wg, worker, caller>>
    /\ UNCHANGED notPool

\* start is called
start ==
    /\ caller.pc = "idle"
    /\ caller' = [pc |-> "start", i |-> 0]
    /\ UNCHANGED <<workQ, closed, wg, worker, phist>>
    /\ UNCHANGED notPool

\* one iteration of start's loop: wg.Add(1) and the go statement
startWorker ==
    /\ caller.pc = "start"
    /\ caller.i < NoOfWorkers
    /\ wg' = wg + 1
    /\ worker' = [worker EXCEPT ![caller.i + 1].pc = "range"]
    /\ caller' = [caller EXCEPT !.i = @ + 1]
    /\ UNCHANGED <<workQ, closed, phist>>
    /\ UNCHANGED notPool

\* start returns
startReturn ==
    /\ caller.pc = "start"
    /\ caller.i >= NoOfWorkers
    /\ caller' = [caller EXCEPT !.pc = "started"]
    /\ UNCHANGED <<workQ, closed, wg, worker, phist>>
    /\ UNCHANGED notPool

\* "for work := range workQ" receives the task at the head of the buffer
\* and calls work.run()
workerTake(n) ==
    /\ worker[n].pc = "range"
    /\ workQ # <<>>
    /\ LET work == receive(workQ).work
       IN  /\ worker' = [worker EXCEPT ![n] = [pc |-> "run", work |-> work]]
           /\ phist' = [phist EXCEPT !.taken = Append(@, work),
                                     !.runs[work] = @ + 1,
                                     !.by[work] = @ \cup {n}]
    /\ workQ' = receive(workQ).rest
    /\ UNCHANGED <<closed, wg, caller>>
    /\ UNCHANGED notPool

\* work.run() returns
workerRunReturn(n) ==
    /\ worker[n].pc = "run"
    /\ phist' = [phist EXCEPT !.done[worker[n].work] = @ + 1]
    /\ worker' = [worker EXCEPT ![n] = [pc |-> "range", work |-> 0]]
    /\ UNCHANGED <<workQ, closed, wg, caller>>
    /\ UNCHANGED notPool

\* a range loop that ends as soon as it finds the buffer empty
rangeEnds_WhenEmpty == workQ = <<>>

\* the range loop ends when workQ is closed and drained
rangeEnds == closed /\ workQ = <<>>

\* the worker leaves its loop: the deferred wg.Done()
workerExit(n) ==
    /\ worker[n].pc = "range"
    /\ rangeEnds
    /\ worker' = [worker EXCEPT ![n].pc = "exited"]
    /\ wg' = wg - 1
    /\ UNCHANGED <<workQ, closed, caller, phist>>
    /\ UNCHANGED notPool

\* stop: close(workQ)
stop ==
    /\ caller.pc = "started"
    /\ closed' = TRUE
    /\ caller' = [caller EXCEPT !.pc = "wg.Wait"]
    /\ UNCHANGED <<workQ, wg, worker, phist>>
    /\ UNCHANGED notPool

\* a Wait that does not wait
waitReturns_AtOnce == TRUE

\* wg.Wait() returns when the counter is zero
waitReturns == wg = 0

\* stop returns
stopReturn ==
    /\ caller.pc = "wg.Wait"
    /\ waitReturns
    /\ caller' = [caller EXCEPT !.pc = "stopped"]
    /\ UNCHANGED <<workQ, closed, wg, worker, phist>>
    /\ UNCHANGED notPool

NextPool ==
    \/ place
    \/ start
    \/ startWorker
    \/ startReturn
    \/ \E n \in Workers : workerTake(n)
    \/ \E n \in Workers : workerRunReturn(n)
    \/ \E n \in Workers : workerExit(n)
    \/ stop
    \/ stopReturn

SpecPool == InitPool /\ [][NextPool]_vars

(***************************************************************************)
(* The methods of ErrorMap, and the statement em[k] = e of its users.      *)
(***************************************************************************)
Keys == 0 .. MaxKeys - 1

ErrorValues == {"hello err 0", "hello err 1"}

\* len(*es)
len(es) == Cardinality(DOMAIN es.m)

\* an error interface value: nil, or one that holds the *ErrorMap es
NilInterface == [isNil |-> TRUE, es |-> NilPointer]
ErrorOf(es) == [isNil |-> FALSE, es |-> es]

\* a Get that hands back the pointer whatever it points to: an interface
\* that holds a nil or empty *ErrorMap is not a nil error
Get_AlwaysTheMap(es) == ErrorOf(es)

\* Get: nil for a nil pointer and for a map without entries, else es
Get(es) == IF es.ptr = "nil" \/ len(es) = 0 THEN NilInterface ELSE ErrorOf(es)

Size(es) == IF es.ptr = "nil" THEN 0 ELSE len(es)

InitErrorMap ==
    /\ em \in {NilPointer, NilMap, EmptyErrorMap}
    /\ got = NoResult
    /\ ehist = {}
    /\ SyncIdle
    /\ WaitIdle
    /\ PoolIdle
    /\ ScanIdle
    /\ ctxt = "live"
    /\ earlier = <<>>

\* "em[k] = e" on a map that make or a literal has created
emAssign ==
    /\ em.made
    /\ \E k \in Keys, e \in ErrorValues :
           /\ em' = [em EXCEPT !.m = (k :> e) @@ @]
           /\ ehist' = ehist \cup {k}
    /\ got' = NoResult
    /\ UNCHANGED notErrorMap

emGet ==
    /\ got' = [op |-> "Get", val |-> Get(em)]
    /\ UNCHANGED <<em, ehist>>
    /\ UNCHANGED notErrorMap

emSize ==
    /\ got' = [op |-> "Size", val |-> Size(em)]
    /\ UNCHANGED <<em, ehist>>
    /\ UNCHANGED notErrorMap

\* "_, ok := em[k]" on a non-nil pointer
emLookup ==
    /\ em.ptr # "nil"
    /\ \E k \in Keys : got' = [op |-> "Lookup", val |-> <<k, k \in DOMAIN em.m>>]
    /\ UNCHANGED <<em, ehist>>
    /\ UNCHANGED notErrorMap

NextErrorMap ==
    \/ emAssign
    \/ emGet
    \/ emSize
    \/ emLookup

SpecErrorMap == InitErrorMap /\ [][NextErrorMap]_vars

(***************************************************************************)
(* createSync as a function of what the Update calls return.               *)
(*                                                                         *)
(* What createSync returns depends on the resources, on the order sort     *)
(* returned and on what each Update returns, not on the interleaving of    *)
(* the goroutines of a wave.  wavesFrom computes it from the state at the  *)
(* loop condition, once with the scan of the code and once with a scan     *)
(* that does not stop at the first resource that is not ready.             *)
(***************************************************************************)
UpdatePlans == [Idx -> [status : StatusValues, failed : BOOLEAN]]

\* a sort that returns the vertices in any order
sortOrders_AnyOrder(nb, gr, acc) ==
    {o \in [1 .. Cardinality(DOMAIN nb) -> DOMAIN nb] :
        \A a, b \in DOMAIN o : a # b => o[a] # o[b]}

\* the orders sort can return for graph gr: a vertex of count 0 is removed in
\* each iteration, whichever the range over the map meets last
RECURSIVE sortOrders(_, _, _)
sortOrders(nb, gr, acc) ==
    IF DOMAIN nb = {} THEN {acc}
    ELSE UNION {sortOrders(DeleteKey(DecrementAll(nb, gr[v], 1), v), gr, Append(acc, v)) :
                   v \in ZeroVertices(nb)}

\* the scan of the order with `continue` in the place of `break`
scanFull(rs, ord, cache) ==
    LET taken(i) == ResourceName(i) \notin DOMAIN cache /\ ready(rs, cache, i)
    IN  SelectSeq(ord, taken)

\* the outputs of a wave in which every Update returns what the plan says
planned(pl, ex) == [i \in Range(ex) |-> [status |-> pl[i].status, result |-> pl[i].failed]]

\* the loop over the waves and the return, from the loop condition on
RECURSIVE wavesFrom(_, _, _, _, _, _, _, _, _, _)
wavesFrom(full, rs, ord, pl, cache, st, left, attempts, e, lists) ==
    IF ~(attempts > 0 /\ left > 0 /\ e = NilError)
    THEN [returned |-> TRUE, status |-> st, err |-> finalError(left, e), lists |-> lists]
    ELSE LET ex == IF full THEN scanFull(rs, ord, cache) ELSE scanOrdered(rs, ord, cache, 1)
             out == planned(pl, ex)
             errs == waveErrs(out)
         IN  wavesFrom(full, rs, ord, pl,
                       recordBuilt(cache, out),
                       recordStatus(st, out),
                       leftAfterWave(left, ex, errs),
                       attempts - 1,
                       IF Cardinality(errs) > 0 THEN ErrorMapOf(errs) ELSE e,
                       Append(lists, ex))

\* createSync is entered with a valid resource set and an order sort returned
InitScan ==
    /\ resources \in {[i \in Idx |-> [Name |-> ResourceName(i), Dependencies |-> c[i]]] :
                         c \in DepConfigs(MaxDeps)}
    /\ NilError \in check(resources)
    /\ toDelete = FALSE
    /\ g = buildGraph(resources)
    /\ neighbours = EmptyMap
    /\ sorted \in sortOrders(initNeighbours(g), g, <<>>)
    /\ ordered = sorted
    /\ resourcesLeft = Len(ordered)
    /\ maxAttempts = Len(ordered)
    /\ buildCache = EmptyMap
    /\ status = EmptyMap
    /\ err = NilError
    /\ pc = "loop"
    /\ execList = <<>>
    /\ task = [i \in Idx |-> IdleTask]
    /\ output = EmptyMap
    /\ fields = InitFields
    /\ pos = 0
    /\ wave = 0
    /\ hist = InitHist
    /\ delLog = <<>>
    /\ plan \in UpdatePlans
    /\ kept = NoRun
    /\ variant = NoRun
    /\ ctxt = "live"
    /\ earlier = <<>>
    /\ WaitIdle
    /\ PoolIdle
    /\ ErrorMapIdle

\* createSync runs to its return
runStopAtFirst ==
    /\ ~kept.returned
    /\ kept' = wavesFrom(FALSE, resources, ordered, plan, buildCache, status,
                         resourcesLeft, maxAttempts, err, <<>>)
    /\ UNCHANGED <<plan, variant>>
    /\ UNCHANGED notScan

\* createSync with the full scan runs to its return
runFullScan ==
    /\ ~variant.returned
    /\ variant' = wavesFrom(TRUE, resources, ordered, plan, buildCache, status,
                            resourcesLeft, maxAttempts, err, <<>>)
    /\ UNCHANGED <<plan, kept>>
    /\ UNCHANGED notScan

NextScan ==
    \/ runStopAtFirst
    \/ runFullScan

SpecScan == InitScan /\ [][NextScan]_vars

(***************************************************************************)
(* The Factory/Builder variant of createSync and execute                   *)
(* (src/unnamed/part_003).                                                 *)
(*                                                                         *)
(* A builder is made for every resource; a Dependency names a resource.    *)
(* The scan has no test for builders that were already updated, and no     *)
(* statement writes buildCache: the one in execute is commented out.       *)
(***************************************************************************)
\* the error an Update of builder i returns
UpdateError(i) == [kind |-> "update", msg |-> "update failed", keys |-> {ResourceName(i)}]

\* the scan of the order: the builders met before the first one that is not
\* ready
RECURSIVE buildersScan(_, _, _, _)
buildersScan(rs, ord, cache, k) ==
    IF k > Len(ord) THEN <<>>
    ELSE IF ~ready(rs, cache, ord[k]) THEN <<>>
    ELSE <<ord[k]>> \o buildersScan(rs, ord, cache, k + 1)

\* createSync is entered: resources that name existing resources, an order
\* Sort returned, an empty cache
InitBuilders ==
    /\ resources \in {[i \in Idx |-> [Name |-> ResourceName(i), Dependencies |-> c[i]]] :
                         c \in DepConfigs(MaxDeps)}
    /\ \A i \in Idx : \A k \in 1 .. Len(resources[i].Dependencies) :
           /\ resources[i].Dependencies[k].FromResource \in Idx
           /\ resources[i].Dependencies[k].FromField = ""
           /\ resources[i].Dependencies[k].ToField = ""
    /\ toDelete = FALSE
    /\ g = buildGraph(resources)
    /\ neighbours = EmptyMap
    /\ sorted \in sortOrders(initNeighbours(g), g, <<>>)
    /\ ordered = sorted
    /\ resourcesLeft = Len(ordered)
    /\ maxAttempts = Len(ordered)
    /\ buildCache = EmptyMap
    /\ status = EmptyMap
    /\ err = NilError
    /\ pc = "builders.loop"
    /\ execList = <<>>
    /\ task = [i \in Idx |-> IdleTask]
    /\ output = EmptyMap
    /\ fields = InitFields
    /\ pos = 0
    /\ wave = 0
    /\ hist = InitHist
    /\ delLog = <<>>
    /\ WaitIdle
    /\ PoolIdle
    /\ ErrorMapIdle
    /\ ScanIdle
    /\ ctxt = "live"
    /\ earlier = <<>>

\* the head of a wave: build execList and start one goroutine per entry
buildersWaveStart ==
    /\ pc = "builders.loop"
    /\ LoopGuard
    /\ maxAttempts' = maxAttempts - 1
    /\ execList' = buildersScan(resources, ordered, buildCache, 1)
    /\ task' = [i \in Idx |-> IF i \in Range(execList')
                              THEN [pc |-> "execute", k |-> 0] ELSE IdleTask]
    /\ output' = EmptyMap
    /\ wave' = wave + 1
    /\ pc' = "builders.wait"
    /\ UNCHANGED notSync
    /\ UNCHANGED <<resources, toDelete, g, neighbours, sorted, ordered, resourcesLeft,
                   buildCache, status, err, fields, pos, hist, delLog>>

\* execute: the properties of the dependencies are read from the cache and
\* b.Update(in) is invoked
buildersExecute(i) ==
    /\ pc = "builders.wait"
    /\ task[i].pc = "execute"
    /\ task' = [task EXCEPT ![i].pc = "update"]
    /\ hist' = [hist EXCEPT ![i].calls = @ + 1, ![i].wave = wave, ![i].result = "running"]
    /\ UNCHANGED notSync
    /\ UNCHANGED <<resources, toDelete, pc, g, neighbours, sorted, ordered, resourcesLeft,
                   maxAttempts, buildCache, status, err, execList, output, fields, pos,
                   wave, delLog>>

\* b.Update returns; the goroutine sends the error, or nil, on its channel
buildersUpdateReturn(i) ==
    /\ pc = "builders.wait"
    /\ task[i].pc = "update"
    /\ \E failed \in BOOLEAN :
           /\ output' = (i :> [status |-> "", result |-> failed]) @@ output
           /\ hist' = [hist EXCEPT ![i].result = IF failed THEN "err" ELSE "ok"]
    /\ task' = [task EXCEPT ![i].pc = "done"]
    /\ UNCHANGED notSync
    /\ UNCHANGED <<resources, toDelete, pc, g, neighbours, sorted, ordered, resourcesLeft,
                   maxAttempts, buildCache, status, err, execList, fields, pos, wave,
                   delLog>>

\* wg.Wait() has returned: read every channel, keep one of the errors, count
\* them, and go back to the loop condition
buildersWaveEnd ==
    /\ pc = "builders.wait"
    /\ barrierCleared
    /\ LET failed == {i \in DOMAIN output : output[i].result}
       IN  /\ \/ failed = {} /\ err' = err
              \/ \E i \in failed : err' = UpdateError(i)
           /\ resourcesLeft' = leftAfterWave(resourcesLeft, execList, failed)
    /\ task' = [i \in Idx |-> IdleTask]
    /\ pc' = "builders.loop"
    /\ UNCHANGED notSync
    /\ UNCHANGED <<resources, toDelete, g, neighbours, sorted, ordered, maxAttempts,
                   buildCache, status, execList, output, fields, pos, wave, hist, delLog>>

\* the loop is left: the exhaustion check and the return
buildersReturn ==
    /\ pc = "builders.loop"
    /\ ~LoopGuard
    /\ err' = finalError(resourcesLeft, err)
    /\ pc' = "builders.done"
    /\ UNCHANGED notSync
    /\ UNCHANGED <<resources, toDelete, g, neighbours, sorted, ordered, resourcesLeft,
                   maxAttempts, buildCache, status, execList, task, output, fields, pos,
                   wave, hist, delLog>>

NextBuilders ==
    \/ buildersWaveStart
    \/ \E i \in Idx : buildersExecute(i)
    \/ \E i \in Idx : buildersUpdateReturn(i)
    \/ buildersWaveEnd
    \/ buildersReturn

SpecBuilders == InitBuilders /\ [][NextBuilders]_vars

(***************************************************************************)
(* Vocabulary of the properties.                                           *)
(***************************************************************************)
Deps(i) == resources[i].Dependencies

Names == {ResourceName(i) : i \in Idx}

\* a dependency with both field names set: a value is to be transferred
Valued(dep) == dep.FromField # "" /\ dep.ToField # ""

HasMissingDependency ==
    \E i \in Idx : \E k \in DOMAIN Deps(i) : Deps(i)[k].FromResource \notin Names

Mispaired(dep) == (dep.FromField = "") # (dep.ToField = "")

HasBadFields ==
    \E i \in Idx : \E k \in DOMAIN Deps(i) :
        LET dep == Deps(i)[k]
        IN  \/ Mispaired(dep)
            \/ dep.ToField # "" /\ dep.ToField \notin StructFields(i)
            \/ /\ dep.FromField # ""
               /\ dep.FromResource \in Names
               /\ dep.FromField \notin StructFields(dep.FromResource)

\* the resource set satisfies the three rules of validation
ValidSet == ~HasMissingDependency /\ ~HasBadFields

RECURSIVE ReachFrom(_, _, _)
ReachFrom(rel, S, n) ==
    IF n = 0 THEN S ELSE ReachFrom(rel, S \cup UNION {rel[v] : v \in S}, n - 1)

\* the vertices reached from v over one edge or more
Reachable(rel, v) == ReachFrom(rel, rel[v], Cardinality(DOMAIN rel))

AcyclicRel(rel) == \A v \in DOMAIN rel : v \notin Reachable(rel, v)

\* resource -> the resources it declares a dependency on
DepRel == [i \in Idx |-> {Deps(i)[k].FromResource : k \in DOMAIN Deps(i)} \cap Idx]

\* vertex -> its successors
GraphRel(gr) == [v \in DOMAIN gr |-> Range(gr[v])]

AcyclicDeps == AcyclicRel(DepRel)

CycleAmongTwoOrMore ==
    \E i, j \in Idx : i # j /\ j \in Reachable(DepRel, i) /\ i \in Reachable(DepRel, j)

PosIn(seq, x) == CHOOSE k \in 1 .. Len(seq) : seq[k] = x

NoUpdateFailed == \A i \in Idx : hist[i].result # "err"

Invoked == {i \in Idx : hist[i].calls > 0}

(***************************************************************************)
(* C1.  In a construction Sync, Update of a resource is invoked only after *)
(* Update of each resource it depends on has returned without error in an  *)
(* earlier wave; a resource and one of its dependencies are never in the   *)
(* same wave.                                                              *)
(***************************************************************************)
C1_DependenciesBuiltInEarlierWave ==
    /\ \A i \in Invoked : \A k \in DOMAIN Deps(i) :
           LET d == Deps(i)[k].FromResource
           IN  /\ d \in Idx
               /\ hist[d].result = "ok"
               /\ hist[d].wave < hist[i].wave
    /\ pc = "wait" =>
           \A i \in Range(execList) : \A k \in DOMAIN Deps(i) :
               Deps(i)[k].FromResource \notin {ResourceName(j) : j \in Range(execList)}

\* a resource with two dependencies on two different resources has been updated
C1_Witness ==
    \E i \in Invoked :
        /\ Len(Deps(i)) = 2
        /\ Deps(i)[1].FromResource # Deps(i)[2].FromResource

(***************************************************************************)
(* C2.  For every acyclic graph and every choice among the vertices whose  *)
(* count is zero, sort does not fail and returns every vertex exactly      *)
(* once, with u before v for every edge u -> v.                            *)
(***************************************************************************)
C2_SortIsTopologicalOrder ==
    AcyclicRel(GraphRel(g)) =>
        /\ pc # "panic"
        /\ pc = "sorted" =>
               /\ Len(sorted) = vertices(g)
               /\ \A v \in DOMAIN g : Count(sorted, v) = 1
               /\ \A u \in DOMAIN g : \A k \in DOMAIN g[u] :
                      PosIn(sorted, u) < PosIn(sorted, g[u][k])

\* sort has returned on an acyclic graph with MaxEdges edges in which one
\* vertex has two successors, so that the scan had a choice
C2_Witness ==
    /\ pc = "sorted"
    /\ AcyclicRel(GraphRel(g))
    /\ \E v \in DOMAIN g : Cardinality(Range(g[v])) >= 2
    /\ \E v \in DOMAIN g : \E w \in DOMAIN g : v # w /\ g[v] # <<>> /\ g[w] # <<>>

(***************************************************************************)
(* C3.  A construction Sync over a valid acyclic resource set returns, and *)
(* when no Update returned an error it returns a nil error with every      *)
(* resource built, resourcesLeft = 0 and the status mapping holding        *)
(* exactly the non-empty statuses that were returned.                      *)
(***************************************************************************)
C3_AllBuilt ==
    /\ err = NilError
    /\ resourcesLeft = 0
    /\ \A i \in Idx : hist[i].result = "ok" /\ ResourceName(i) \in DOMAIN buildCache
    /\ DOMAIN status = {ResourceName(i) : i \in {j \in Idx : hist[j].status # ""}}
    /\ \A i \in Idx : hist[i].status # "" => status[ResourceName(i)] = hist[i].status

C3_ValidAcyclicConstruction == ~toDelete /\ ValidSet /\ AcyclicDeps

C4_EveryDependencyValueArrives ==
    \A i \in Invoked :
        /\ hist[i].copies = Len(Deps(i))
        /\ \A k \in DOMAIN Deps(i) :
               LET dep == Deps(i)[k]
               IN  Valued(dep) =>
                       /\ hist[i].atInvoke[dep.ToField]
                              = hist[dep.FromResource].atReturn[dep.FromField]
                       /\ (pc = "done" /\ err = NilError) =>
                              fields[i][dep.ToField]
                                  = hist[dep.FromResource].atReturn[dep.FromField]

\* dependency k of resource i is the last one of i that names its ToField
LastForToField(i, k) ==
    \A k2 \in DOMAIN Deps(i) :
        (k2 > k /\ Valued(Deps(i)[k2])) => Deps(i)[k2].ToField # Deps(i)[k].ToField

(***************************************************************************)
(* C4, amended.  The same, for every dependency of B that is not followed  *)
(* in B's list by another dependency with the same ToField: when several   *)
(* dependencies name one ToField, the field holds the value of the last.   *)
(***************************************************************************)
C4_LastDependencyValueArrives ==
    \A i \in Invoked :
        /\ hist[i].copies = Len(Deps(i))
        /\ \A k \in DOMAIN Deps(i) :
               LET dep == Deps(i)[k]
               IN  (Valued(dep) /\ LastForToField(i, k)) =>
                       /\ hist[i].atInvoke[dep.ToField]
                              = hist[dep.FromResource].atReturn[dep.FromField]
                       /\ (pc = "done" /\ err = NilError) =>
                              fields[i][dep.ToField]
                                  = hist[dep.FromResource].atReturn[dep.FromField]

\* a successful Sync in which a value produced by an Update reached a dependent
C4_Witness ==
    /\ pc = "done"
    /\ err = NilError
    /\ \E i \in Invoked : \E k \in DOMAIN Deps(i) :
           /\ Valued(Deps(i)[k])
           /\ fields[i][Deps(i)[k].ToField] = ProducedValue(Deps(i)[k].FromResource)

(***************************************************************************)
(* C5.  If a dependency names a resource that is not in the set, Sync      *)
(* (construction or deletion) returns an error and neither Update nor      *)
(* Delete is invoked on any resource.                                      *)
(***************************************************************************)
C5_MissingDependencyFailsFast ==
    HasMissingDependency =>
        /\ pc \in {"Sync", "done"}
        /\ pc = "done" => err # NilError
        /\ \A i \in Idx : hist[i].calls = 0 /\ hist[i].deletes = 0

\* Sync has returned the error on a set whose only flaw is the missing name
C5_Witness ==
    /\ HasMissingDependency
    /\ ~HasBadFields
    /\ pc = "done"
    /\ err.kind = "validation"

(***************************************************************************)
(* C6.  A dependency with exactly one of FromField and ToField set, or     *)
(* naming a field its resource does not have, makes Sync return a          *)
(* validation error before any Update or Delete and before any field of a  *)
(* resource is written.                                                    *)
(***************************************************************************)
C6_BadFieldsFailFast ==
    HasBadFields =>
        /\ pc \in {"Sync", "done"}
        /\ pc = "done" => err.kind = "validation"
        /\ \A i \in Idx : hist[i].calls = 0 /\ hist[i].deletes = 0 /\ hist[i].copies = 0
        /\ fields = InitFields

\* Sync has returned on a set whose only flaw is a FromField that the
\* dependency's resource does not have
C6_Witness ==
    /\ pc = "done"
    /\ err.kind = "validation"
    /\ ~HasMissingDependency
    /\ \A i \in Idx : \A k \in DOMAIN Deps(i) :
           ~Mispaired(Deps(i)[k]) /\ checkField(i, Deps(i)[k].ToField) = "nil"
    /\ HasBadFields

(***************************************************************************)
(* C7.  Once an Update of a wave has returned an error no further wave is  *)
(* started: Sync returns the aggregated error after that wave, and Update  *)
(* is never invoked on the resources that had not run yet.                 *)
(***************************************************************************)
C7_NoWaveAfterFailure ==
    \A i \in Idx :
        hist[i].result = "err" =>
            /\ wave = hist[i].wave
            /\ \A j \in Invoked : hist[j].wave <= hist[i].wave
            /\ pc = "done" => err.kind = "errorMap" /\ err.keys # {}

\* Sync returned after a failure in the first wave while a resource was left
\* that Update was never invoked on
C7_Witness ==
    /\ pc = "done"
    /\ \E i \in Idx : hist[i].result = "err" /\ hist[i].wave = 1
    /\ \E j \in Idx : hist[j].calls = 0

(***************************************************************************)
(* C8.  A failing Update does not cancel its siblings: when the wave's     *)
(* barrier has cleared, Update has run to completion on every resource of  *)
(* the execution list, and the aggregated error holds exactly one entry,   *)
(* under its name, for each of them whose Update failed.                   *)
(***************************************************************************)
C8_FailedNamesOfWave ==
    {ResourceName(i) : i \in {j \in Range(execList) : hist[j].result = "err"}}

C8_SiblingsRunToCompletion ==
    (pc \in {"loop", "done"} /\ wave > 0) =>
        /\ \A i \in Range(execList) :
               /\ hist[i].calls = 1
               /\ hist[i].wave = wave
               /\ hist[i].result \in {"ok", "err"}
        /\ C8_FailedNamesOfWave # {} => err = ErrorMapOf(C8_FailedNamesOfWave)
        /\ C8_FailedNamesOfWave = {} => err.kind # "errorMap"

\* a wave of three resources ended with two failures and one success
C8_Witness ==
    /\ pc = "done"
    /\ Len(execList) = 3
    /\ Cardinality(err.keys) = 2
    /\ \E i \in Range(execList) : hist[i].result = "ok"

(***************************************************************************)
(* C9.  When as many waves as the order is long have run, no Update has    *)
(* returned an error and a resource of the order is still unbuilt,         *)
(* construction Sync returns the exhaustion error, never nil.              *)
(***************************************************************************)
C9_ExhaustionReported ==
    ( /\ pc = "done"
      /\ ~toDelete
      /\ wave = Len(ordered)
      /\ NoUpdateFailed
      /\ \E i \in Range(ordered) : ResourceName(i) \notin DOMAIN buildCache )
    => err = ExhaustedError

\* the error was returned after some resources had been built
C9_Witness ==
    /\ pc = "done"
    /\ err = ExhaustedError
    /\ wave = NumResources
    /\ DOMAIN buildCache # {}

(***************************************************************************)
(* C10.  For a resource set that passes validation and whose dependencies  *)
(* form a cycle among two or more resources, construction Sync returns     *)
(* normally, and what it returns is the exhaustion error.                  *)
(***************************************************************************)
C10_CycleGivesExhaustion ==
    (ValidSet /\ ~toDelete /\ CycleAmongTwoOrMore) =>
        /\ pc # "panic"
        /\ pc = "done" => err = ExhaustedError

\* the vertices that lie on a cycle of the graph
OnCycle(gr) == {v \in DOMAIN gr : v \in Reachable(GraphRel(gr), v)}

(***************************************************************************)
(* C11.  For a graph that contains a cycle, sort terminates normally and   *)
(* what it returns is shorter than the vertex count and holds no vertex    *)
(* of a cycle.                                                             *)
(***************************************************************************)
C11_CyclicSortReturnsPartialOrder ==
    OnCycle(g) # {} =>
        /\ pc # "panic"
        /\ pc = "sorted" =>
               /\ Len(sorted) < vertices(g)
               /\ Range(sorted) \cap OnCycle(g) = {}

(***************************************************************************)
(* C12.  A deletion Sync invokes Delete on one resource at a time, in the  *)
(* exact reverse of the order sort returned: the k-th Delete is on the     *)
(* k-th resource from the end, no resource is deleted twice, and for every *)
(* dependency of B on another resource A, Delete of B has returned before  *)
(* Delete of A is invoked.                                                 *)
(***************************************************************************)
C12_DeleteInReverseOrder ==
    /\ Len(delLog) <= Len(sorted)
    /\ \A k \in DOMAIN delLog : delLog[k] = sorted[Len(sorted) + 1 - k]
    /\ \A i \in Idx : hist[i].deletes = Count(delLog, i) /\ hist[i].deletes <= 1
    /\ \A b \in Idx : \A k \in DOMAIN Deps(b) :
           LET a == Deps(b)[k].FromResource
           IN  (a # b /\ a \in Range(delLog)) =>
                   /\ b \in Range(delLog)
                   /\ PosIn(delLog, b) < PosIn(delLog, a)

\* a chain of three resources has been deleted, the last dependent first
C12_Witness ==
    /\ toDelete
    /\ pc = "done"
    /\ err = NilError
    /\ Len(delLog) = NumResources
    /\ \E a, b, c \in Idx :
           /\ a # b /\ b # c
           /\ a \in DepRel[b] /\ b \in DepRel[c]
           /\ delLog = <<c, b, a>>

(***************************************************************************)
(* C13.  If Delete of the resource at position p of the deletion order     *)
(* returns an error, the deletion Sync returns exactly that error, not an  *)
(* aggregate; Delete is never invoked on a resource after position p, and  *)
(* it has been invoked exactly once on each resource up to position p.     *)
(***************************************************************************)
C13_FirstDeleteErrorStops ==
    \A i \in Idx :
        hist[i].deleteFailed =>
            LET p == PosIn(ordered, i)
            IN  /\ pc = "done"
                /\ err = DeleteError(i)
                /\ err.kind # "errorMap"
                /\ delLog = SubSeq(ordered, 1, p)
                /\ \A k \in DOMAIN ordered :
                       hist[ordered[k]].deletes = IF k <= p THEN 1 ELSE 0

\* Delete failed on the second of three resources
C13_Witness ==
    /\ pc = "done"
    /\ Len(ordered) = NumResources
    /\ hist[ordered[2]].deleteFailed
    /\ hist[ordered[1]].deletes = 1
    /\ hist[ordered[3]].deletes = 0

NeverMatches == \A o \in Observations : ~matched(waiter.Acceptors, o)

\* the context was not cancelled and no delay returned an error
NoCancellation == ~ctx.done /\ whist.sleepErr = "nil"

Returned == wpc = "returned"

(***************************************************************************)
(* C15.  With acceptors that never match, MaxAttempts = n >= 1 and no      *)
(* cancellation, WaitWithContext returns, and when it returns it has       *)
(* invoked the action exactly n times, has slept exactly n - 1 times (no   *)
(* delay after the last attempt) and returns "exceeded wait attempts".     *)
(***************************************************************************)
C15_Counts ==
    (NeverMatches /\ waiter.MaxAttempts >= 1 /\ NoCancellation) =>
        /\ whist.calls <= waiter.MaxAttempts
        /\ whist.sleeps <= waiter.MaxAttempts - 1
        /\ Returned =>
               /\ whist.calls = waiter.MaxAttempts
               /\ whist.sleeps = waiter.MaxAttempts - 1
               /\ werr = "exceeded wait attempts"

C15_ExactlyNAttempts ==
    /\ []C15_Counts
    /\ (NeverMatches /\ waiter.MaxAttempts >= 1) ~> Returned

\* three attempts and two delays of the default sleep, then the error
C15_Witness ==
    /\ Returned
    /\ NeverMatches
    /\ NoCancellation
    /\ waiter.SleepWithContext = "nil"
    /\ waiter.MaxAttempts = MaxWaitAttempts
    /\ whist.calls = MaxWaitAttempts
    /\ whist.sleeps = MaxWaitAttempts - 1
    /\ werr = "exceeded wait attempts"

\* the context was cancelled while the default delay that follows attempt
\* number whist.cancelledIn was running, and that delay's timer has not fired
CancelledDuringDelay ==
    /\ waiter.SleepWithContext = "nil"
    /\ whist.cancelledIn > 0
    /\ ~whist.raced

(***************************************************************************)
(* C16.  If the context is cancelled during the delay that follows the     *)
(* k-th attempt, WaitWithContext returns an error without waiting for the  *)
(* timer, and the action has been invoked exactly k times: no attempt is   *)
(* run after the cancellation.                                             *)
(***************************************************************************)
C16_Counts ==
    CancelledDuringDelay =>
        /\ wpc \in {"sleep", "returned"}
        /\ attempt = whist.cancelledIn
        /\ whist.calls = whist.cancelledIn
        /\ whist.sleeps = whist.cancelledIn
        /\ Returned => werr # "nil"

C17_ContextErrorPropagated ==
    (Returned /\ waiter.SleepWithContext = "nil" /\ whist.sleepErr # "nil") =>
        /\ whist.sleepErr = ctx.err
        /\ werr = ctx.err

(***************************************************************************)
(* C18.  As soon as the observation of an attempt matches an acceptor,     *)
(* WaitWithContext returns nil: the action is not invoked again and no     *)
(* delay follows, also when the match is on the MaxAttempts-th attempt.    *)
(***************************************************************************)
C18_MatchReturnsNil ==
    (whist.calls >= 1 /\ wpc # "match" /\ matched(waiter.Acceptors, obs)) =>
        /\ Returned
        /\ werr = "nil"
        /\ whist.calls = attempt
        /\ whist.sleeps = attempt - 1

\* the second acceptor matched on the last attempt the Waiter allows
C18_Witness ==
    /\ Returned
    /\ werr = "nil"
    /\ attempt = waiter.MaxAttempts
    /\ attempt = MaxWaitAttempts
    /\ Len(waiter.Acceptors) = 2
    /\ obs \notin waiter.Acceptors[1]
    /\ obs \in waiter.Acceptors[2]

(***************************************************************************)
(* C19.  When stop returns, every task that place accepted before stop was *)
(* called has finished running and every one of the NoOfWorkers workers    *)
(* has exited; stop does not return while a task is queued or in flight.   *)
(***************************************************************************)
C19_StopWaitsForAllTasks ==
    caller.pc = "stopped" =>
        /\ \A t \in Range(phist.placed) : phist.runs[t] >= 1 /\ phist.done[t] = phist.runs[t]
        /\ \A n \in Workers : worker[n].pc = "exited"
        /\ workQ = <<>>
        /\ wg = 0

\* stop has returned after MaxTasks tasks were placed and every worker has
\* run one of them
C19_Witness ==
    /\ caller.pc = "stopped"
    /\ Len(phist.placed) = MaxTasks
    /\ \A n \in Workers : \E t \in Tasks : n \in phist.by[t]

(***************************************************************************)
(* C20.  Get returns a nil error exactly when the ErrorMap is a nil        *)
(* pointer or has no entry; otherwise it returns the ErrorMap itself,      *)
(* whose Size is the number of keys that were given an error and in which  *)
(* each of these keys is found.                                            *)
(***************************************************************************)
C20_GetIsNilIffEmpty ==
    /\ got.op = "Get" =>
           /\ got.val.isNil <=> (em.ptr = "nil" \/ ehist = {})
           /\ ~got.val.isNil =>
                  /\ got.val.es = em
                  /\ Size(got.val.es) = Cardinality(ehist)
                  /\ \A k \in ehist : k \in DOMAIN got.val.es.m
    /\ got.op = "Size" => got.val = Cardinality(ehist)
    /\ got.op = "Lookup" => (got.val[2] <=> got.val[1] \in ehist)

\* Get has returned an ErrorMap of two entries
C20_Witness ==
    /\ got.op = "Get"
    /\ ~got.val.isNil
    /\ Size(got.val.es) = 2
    /\ \E k \in ehist : got.val.es.m[k] = "hello err 1"

(***************************************************************************)
(* Vocabulary of the properties of the waves.                              *)
(***************************************************************************)
\* Update of resource i has returned and the coordinating flow has read its
\* builderOutput
Settled(i) ==
    /\ hist[i].result \in {"ok", "err"}
    /\ hist[i].wave < wave \/ pc \in {"loop", "done"}

\* the status mapping holds the status Update of i returned
StatusRecorded(i) ==
    /\ ResourceName(i) \in DOMAIN status
    /\ status[ResourceName(i)] = hist[i].status

InErrorAggregator(i) == err.kind = "errorMap" /\ ResourceName(i) \in err.keys

InBuildCache(i) ==
    /\ ResourceName(i) \in DOMAIN buildCache
    /\ buildCache[ResourceName(i)] = i

(***************************************************************************)
(* C21.  As claimed: a resource whose Update returned an error is recorded *)
(* only in the error aggregator, under its name, with no entry in the      *)
(* status mapping and none in the build cache; a resource whose Update     *)
(* succeeded is in the build cache and its status is recorded.             *)
(***************************************************************************)
C21_FailedResourceOnlyInErrors ==
    \A i \in Idx :
        Settled(i) =>
            IF hist[i].result = "err"
            THEN /\ InErrorAggregator(i)
                 /\ ResourceName(i) \notin DOMAIN status
                 /\ ResourceName(i) \notin DOMAIN buildCache
            ELSE /\ InBuildCache(i)
                 /\ ~InErrorAggregator(i)
                 /\ hist[i].status # "" => StatusRecorded(i)

(***************************************************************************)
(* C21, amended.  A resource whose Update returned an error is recorded in *)
(* the error aggregator under its name and is not added to the build       *)
(* cache; a resource whose Update succeeded is added to the build cache    *)
(* and not to the error aggregator.  In both cases the status Update       *)
(* returned is recorded under the resource's name when it is not empty,    *)
(* and the resource has no entry in the status mapping when it is empty.   *)
(***************************************************************************)
C21_StatusRecordedAlsoOnError ==
    \A i \in Idx :
        Settled(i) =>
            /\ IF hist[i].result = "err"
               THEN InErrorAggregator(i) /\ ResourceName(i) \notin DOMAIN buildCache
               ELSE InBuildCache(i) /\ ~InErrorAggregator(i)
            /\ IF hist[i].status # ""
               THEN StatusRecorded(i)
               ELSE ResourceName(i) \notin DOMAIN status

\* Sync has returned after a wave in which one Update failed with a status
\* and another succeeded with a status
C21_Witness ==
    /\ pc = "done"
    /\ \E i, j \in Idx :
           /\ hist[i].result = "err" /\ hist[i].status # "" /\ StatusRecorded(i)
           /\ hist[j].result = "ok" /\ hist[j].status # "" /\ StatusRecorded(j)
           /\ hist[i].wave = hist[j].wave

(***************************************************************************)
(* C22.  Construction Sync over uniquely named resources returns a nil     *)
(* error only if Update has been invoked on every resource of the input    *)
(* set and has returned without error: no resource is skipped on a         *)
(* successful return.                                                      *)
(***************************************************************************)
C22_NilOnlyIfAllUpdated ==
    (pc = "done" /\ ~toDelete /\ err = NilError) =>
        \A i \in Idx :
            /\ hist[i].calls = 1
            /\ hist[i].result = "ok"
            /\ InBuildCache(i)

\* a nil return after two waves, the first of which ran two resources
C22_Witness ==
    /\ pc = "done"
    /\ ~toDelete
    /\ err = NilError
    /\ wave = 2
    /\ \E i, j \in Idx : i # j /\ hist[i].wave = 1 /\ hist[j].wave = 1

\* a goroutine of the current wave has not yet sent its output
Running(i) == task[i].pc \in {"copy", "update"}

(***************************************************************************)
(* C23.  No task of wave N+1 starts before every task of wave N has        *)
(* finished: the coordinating flow records results (status mapping, build  *)
(* cache, error) and builds the next execution list only in steps taken    *)
(* when no Update call of the wave is outstanding, and every resource of   *)
(* an earlier wave has its Update returned.                                *)
(***************************************************************************)
C23_RecordsOrStartsWave ==
    \/ wave' # wave
    \/ execList' # execList
    \/ buildCache' # buildCache
    \/ status' # status
    \/ err' # err
    \/ resourcesLeft' # resourcesLeft

C23_EarlierWavesFinished ==
    \A i \in Idx :
        (hist[i].calls > 0 /\ hist[i].wave < wave) =>
            /\ ~Running(i)
            /\ hist[i].result \in {"ok", "err"}

C23_WaveBarrier ==
    /\ [][C23_RecordsOrStartsWave => \A i \in Idx : ~Running(i)]_vars
    /\ []C23_EarlierWavesFinished

\* the second wave is running after a first wave of two tasks
C23_Witness ==
    /\ wave = 2
    /\ pc = "wait"
    /\ \E i \in Idx : task[i].pc = "update"
    /\ \E i, j \in Idx : i # j /\ hist[i].wave = 1 /\ hist[j].wave = 1
                          /\ hist[i].result = "ok" /\ hist[j].result = "ok"

(***************************************************************************)
(* C24.  Within one construction Sync, Update is invoked at most once on   *)
(* each resource: a built resource is never put in a later execution list  *)
(* and a resource whose Update returned an error is never retried.         *)
(***************************************************************************)
C24_UpdateAtMostOnce ==
    /\ \A i \in Idx : hist[i].calls <= 1
    /\ pc = "wait" =>
           \A i \in Range(execList) :
               /\ ~InBuildCache(i)
               /\ hist[i].wave \in {0, wave}
               /\ hist[i].calls = 1 => hist[i].wave = wave

\* a later wave is running though a resource is built and another resource is
\* still waiting for its turn
C24_Witness ==
    /\ pc = "wait"
    /\ wave = 3
    /\ \E i \in Idx : InBuildCache(i) /\ hist[i].wave = 1 /\ hist[i].calls = 1
    /\ \E i \in Range(execList) : task[i].pc = "update"

(***************************************************************************)
(* C25.  The build cache only grows during a Sync: no entry is ever        *)
(* removed or replaced, and a resource has an entry exactly when its       *)
(* Update has returned without error and the coordinating flow has read    *)
(* that result.                                                            *)
(***************************************************************************)
C25_EntriesKept ==
    \A n \in DOMAIN buildCache :
        n \in DOMAIN buildCache' /\ buildCache'[n] = buildCache[n]

C25_EntryIffSucceeded ==
    /\ DOMAIN buildCache \subseteq Names
    /\ \A i \in Idx : InBuildCache(i) <=> (Settled(i) /\ hist[i].result = "ok")

C25_BuildCacheOnlyGrows ==
    /\ [][C25_EntriesKept]_vars
    /\ []C25_EntryIffSucceeded

\* the cache holds entries of two waves, and a failed resource is not in it
C25_Witness ==
    /\ pc = "done"
    /\ \E i, j \in Idx : /\ InBuildCache(i) /\ InBuildCache(j)
                          /\ hist[i].wave = 1 /\ hist[j].wave = 2
    /\ \E i \in Idx : hist[i].result = "err" /\ ~InBuildCache(i)

(***************************************************************************)
(* C26.  The build cache, the status mapping and the error aggregator are  *)
(* written only by the coordinating flow after the wave's barrier: a step  *)
(* taken while a task of the wave is running, or before the barrier has    *)
(* cleared, leaves the three unchanged (the tasks only read the cache),    *)
(* and the cache and the status mapping change in no step but the one      *)
(* that follows the barrier.                                               *)
(***************************************************************************)
C26_Shared == <<buildCache, status, err>>

C26_BeforeBarrier == pc = "wait" /\ (~barrierCleared \/ \E i \in Idx : Running(i))

C26_AfterBarrierStep == pc = "wait" /\ barrierCleared /\ pc' = "loop"

C26_WrittenOnlyAfterBarrier ==
    /\ [][C26_BeforeBarrier => UNCHANGED C26_Shared]_vars
    /\ [][(buildCache' # buildCache \/ status' # status) => C26_AfterBarrierStep]_vars

\* a task reads the build cache for its copy while a sibling has returned a
\* status and an error that are not yet recorded
C26_Witness ==
    /\ pc = "wait"
    /\ DOMAIN buildCache # {}
    /\ \E i \in Idx : /\ task[i].pc = "copy"
                       /\ task[i].k <= Len(resources[i].Dependencies)
    /\ \E j \in DOMAIN output : /\ output[j].result
                                 /\ output[j].status # ""
                                 /\ ResourceName(j) \notin DOMAIN status
                                 /\ err = NilError

\* resource i is not in the build cache
Unbuilt(i) == ResourceName(i) \notin DOMAIN buildCache

\* the positions of the order that hold a not yet built resource that is not
\* ready
Blocked == {k \in 1 .. Len(ordered) : Unbuilt(ordered[k]) /\ ~ready(resources, buildCache, ordered[k])}

\* the position at which the scan of the order stops
FirstBlocked ==
    IF Blocked = {} THEN Len(ordered) + 1
    ELSE CHOOSE k \in Blocked : \A l \in Blocked : k <= l

(***************************************************************************)
(* C27.  A wave's execution list is exactly the run of ready, not yet      *)
(* built resources met while scanning the topological order up to the      *)
(* first not yet built resource that is not ready, in the order of the     *)
(* scan; a ready resource positioned after that resource is not executed   *)
(* in this wave.                                                           *)
(***************************************************************************)
C27_ExecListIsRunBeforeFirstBlocked ==
    pc = "wait" =>
        /\ execList = SelectSeq(SubSeq(ordered, 1, FirstBlocked - 1), Unbuilt)
        /\ \A i \in Range(execList) : ready(resources, buildCache, i)
        /\ \A k \in 1 .. Len(ordered) :
               k > FirstBlocked =>
                   /\ ordered[k] \notin Range(execList)
                   /\ task[ordered[k]] = IdleTask
                   /\ hist[ordered[k]].calls = 0

\* a wave runs while a ready resource behind a blocked one is left out
C27_Witness ==
    /\ pc = "wait"
    /\ execList # <<>>
    /\ \E k \in 1 .. Len(ordered) :
           /\ k > FirstBlocked
           /\ Unbuilt(ordered[k])
           /\ ready(resources, buildCache, ordered[k])
    /\ \E i \in Range(execList) : task[i].pc = "update"

\* a resource names itself as a dependency
SelfDependency == \E i \in Idx : \E k \in 1 .. Len(Deps(i)) : Deps(i)[k].FromResource = ResourceName(i)

PlanHasFailure == \E i \in Idx : plan[i].failed

BothReturned == kept.returned /\ variant.returned

SameResults == kept.status = variant.status /\ kept.err = variant.err

(***************************************************************************)
(* C28.  As claimed: with the stop-at-first-not-ready scan replaced by a   *)
(* full scan of the order in every wave, createSync returns the same       *)
(* status mapping and the same error, for every resource set and every     *)
(* assignment of Update outcomes, failing ones included.                   *)
(***************************************************************************)
C28_FullScanSameResults == BothReturned => SameResults

(***************************************************************************)
(* C28, amended.  With the stop-at-first-not-ready scan replaced by a full *)
(* scan, createSync returns the same status mapping and the same error for *)
(* every valid resource set in which no resource depends on itself and     *)
(* every assignment of Update outcomes in which no Update fails.           *)
(***************************************************************************)
C28_SameResultsWithoutFailure ==
    (BothReturned /\ ~PlanHasFailure /\ ~SelfDependency) => SameResults

\* the two scans ran different waves and returned the same
C28_Witness ==
    /\ BothReturned
    /\ ~PlanHasFailure
    /\ ~SelfDependency
    /\ kept.lists # variant.lists
    /\ kept.err = NilError
    /\ DOMAIN kept.status # {}

\* Update has been invoked on resource i and has not returned
Outstanding(i) == hist[i].result = "running"

(***************************************************************************)
(* C29.  If an Update call of a wave never returns, Sync never returns and *)
(* no resource of a later wave is ever started, even after the context     *)
(* handed to Sync has been cancelled: as long as an Update call is         *)
(* outstanding, with the context live or cancelled, the coordinating flow  *)
(* stays at the wave's barrier, the wave is the one of that call and every *)
(* resource Update was invoked on belongs to that wave or an earlier one.  *)
(***************************************************************************)
C29_OutstandingUpdateBlocksSync ==
    \A i \in Idx :
        Outstanding(i) =>
            /\ pc = "wait"
            /\ wave = hist[i].wave
            /\ \A j \in Idx : hist[j].calls > 0 => hist[j].wave <= hist[i].wave
            /\ \A j \in Idx : j \notin Range(execList) => task[j] = IdleTask

\* the context is cancelled, the siblings of an outstanding Update have
\* returned, and a resource is left for a later wave
C29_Witness ==
    /\ ctxt = "cancelled"
    /\ \E i \in Idx :
           /\ Outstanding(i)
           /\ \A j \in Range(execList) \ {i} : task[j].pc = "done"
           /\ Len(execList) > 1
    /\ \E j \in Idx : j \notin Range(execList) /\ hist[j].calls = 0

(***************************************************************************)
(* C30.  The waiter checks the resource state at most MaxAttempts times:   *)
(* for every configured MaxAttempts, with acceptors that never match and a *)
(* context that is never cancelled, the action is invoked no more than     *)
(* MaxAttempts times, and WaitWithContext returns the error                *)
(* "exceeded wait attempts".                                               *)
(***************************************************************************)
C30_AtMostMaxAttemptsChecks ==
    (NeverMatches /\ NoCancellation) =>
        /\ whist.calls <= waiter.MaxAttempts
        /\ Returned => werr = "exceeded wait attempts"

\* Sync has been called again after an error map
CalledAgain == earlier # <<>>

(***************************************************************************)
(* C31.  Every construction Sync starts from an empty build cache: in a    *)
(* Sync called again on the same resources after an error map, the cache   *)
(* and the status mapping are empty when the loop over the waves is        *)
(* entered, every entry of the cache comes from an Update invoked in this  *)
(* call, the first wave is scanned as if nothing had been built, so that   *)
(* resources that succeeded in the call before are updated again, a        *)
(* resource is updated after each resource it depends on, and a nil return *)
(* means every resource was updated in this call.                          *)
(***************************************************************************)
C31_SecondSyncStartsAfresh ==
    (CalledAgain /\ pc \in {"loop", "wait", "done"}) =>
        /\ wave = 0 => buildCache = EmptyMap /\ status = EmptyMap
        /\ \A i \in Idx : InBuildCache(i) => hist[i].calls = 1 /\ hist[i].result = "ok"
        /\ pc = "wait" => execList = SelectSeq(SubSeq(ordered, 1, FirstBlocked - 1), Unbuilt)
        /\ \A i \in Invoked : \A k \in DOMAIN Deps(i) :
               /\ hist[Deps(i)[k].FromResource].result = "ok"
               /\ hist[Deps(i)[k].FromResource].wave < hist[i].wave
        /\ (pc = "done" /\ err = NilError) =>
               \A i \in Idx : hist[i].calls = 1 /\ hist[i].result = "ok"

\* the second call has returned nil: a resource built in the first call and
\* the resource that failed in it were both updated again, one after the other
C31_Witness ==
    /\ CalledAgain
    /\ pc = "done"
    /\ err = NilError
    /\ \E i, j \in Idx :
           /\ earlier[1].hist[i].result = "ok"
           /\ earlier[1].hist[j].result = "err"
           /\ hist[i].calls = 1 /\ hist[j].calls = 1
           /\ hist[i].wave < hist[j].wave

\* the workers that are inside run()
InRun == {n \in Workers : worker[n].pc = "run"}

(***************************************************************************)
(* C32.  Workers take tasks from the queue in the order place put them in: *)
(* the tasks handed to workers are, in the order of the hand-overs, the    *)
(* first of the tasks placed, and the queue holds the rest in the order of *)
(* placement.                                                              *)
(***************************************************************************)
C32_TakenInPlacedOrder == phist.placed = phist.taken \o workQ

\* three tasks were handed to three workers, and the one placed last has
\* finished while the one placed first is still running
C32_Witness ==
    /\ Len(phist.taken) >= 3
    /\ phist.done[phist.taken[3]] = 1
    /\ phist.done[phist.taken[1]] = 0
    /\ Cardinality(phist.by[phist.taken[1]] \cup phist.by[phist.taken[2]]
                       \cup phist.by[phist.taken[3]]) = 3

(***************************************************************************)
(* C33.  After one call of start, no more than NoOfWorkers workers exist   *)
(* and at most NoOfWorkers tasks are executing run() at any moment; the    *)
(* queue never holds more than MaxWorkQSize tasks.                         *)
(***************************************************************************)
C33_BoundedWorkersAndQueue ==
    /\ wg <= NoOfWorkers
    /\ Cardinality({n \in Workers : worker[n].pc # "none"}) <= caller.i
    /\ Cardinality(InRun) <= NoOfWorkers
    /\ Cardinality({t \in Tasks : phist.runs[t] > phist.done[t]}) <= NoOfWorkers
    /\ Len(workQ) <= MaxWorkQSize

\* every worker is inside run(), the queue is full and a task is waiting to
\* be placed
C33_Witness ==
    /\ Cardinality(InRun) = NoOfWorkers
    /\ Len(workQ) = MaxWorkQSize
    /\ ~canSend(workQ)
    /\ Len(phist.placed) < MaxTasks
    /\ caller.pc = "started"

(***************************************************************************)
(* C34.  Every task accepted by place is run exactly once, by exactly one  *)
(* worker: no task is handed out twice, a task that was accepted is in the *)
(* queue, running or finished, and when stop has returned each accepted    *)
(* task has run once.                                                      *)
(***************************************************************************)
C34_EachTaskRunOnce ==
    /\ \A t \in Tasks :
           /\ phist.runs[t] <= 1
           /\ Cardinality(phist.by[t]) = phist.runs[t]
           /\ phist.done[t] <= phist.runs[t]
           /\ phist.runs[t] = 1 => t \in Range(phist.placed)
    /\ \A t \in Range(phist.placed) :
           \/ t \in Range(workQ) /\ phist.runs[t] = 0
           \/ \E n \in Workers : worker[n] = [pc |-> "run", work |-> t]
           \/ phist.done[t] = 1
    /\ caller.pc = "stopped" =>
           \A t \in Range(phist.placed) : phist.runs[t] = 1 /\ phist.done[t] = 1

\* stop has returned; a worker ran two of the tasks and another ran none
C34_Witness ==
    /\ caller.pc = "stopped"
    /\ Len(phist.placed) = MaxTasks
    /\ \E n \in Workers : Cardinality({t \in Tasks : n \in phist.by[t]}) >= 2
    /\ \E n \in Workers : \A t \in Tasks : n \notin phist.by[t]

\* the resources of the order that are not in the build cache
UnbuiltOfOrder == {k \in 1 .. Len(ordered) : Unbuilt(ordered[k])}

(***************************************************************************)
(* C35.  At the start of every wave of a construction Sync over uniquely   *)
(* named resources, and as long as the loop over the waves is running,     *)
(* resourcesLeft equals the number of resources of the order that are not  *)
(* in the build cache; resourcesLeft is never negative.                    *)
(***************************************************************************)
C35_ResourcesLeftCountsUnbuilt ==
    /\ resourcesLeft >= 0
    /\ (~toDelete /\ pc \in {"loop", "wait"}) =>
           resourcesLeft = Cardinality(UnbuiltOfOrder)

\* at the loop condition after a second wave in which one Update failed and
\* one succeeded
C35_Witness ==
    /\ pc = "loop"
    /\ wave = 2
    /\ resourcesLeft = 1
    /\ err.kind = "errorMap"
    /\ \E i \in Idx : hist[i].wave = 2 /\ hist[i].result = "ok"

\* what the claims about the order compare: the keys of the returned error,
\* the returned status mapping and the resources Update was invoked on
ResultOf(r) ==
    [keys |-> r.err.keys,
     status |-> r.status,
     invoked |-> UNION {Range(r.lists[k]) : k \in DOMAIN r.lists}]

\* the orders sort may return for the resources
OrdersOfSort == sortOrders(initNeighbours(g), g, <<>>)

\* createSync run to its return on order ord
RunOn(ord) ==
    wavesFrom(FALSE, resources, ord, plan, EmptyMap, EmptyMap, Len(ord), Len(ord),
              NilError, <<>>)

(***************************************************************************)
(* C36.  As claimed: for a fixed resource set and fixed Update outcomes,   *)
(* the key set of the returned error, the returned status mapping and the  *)
(* set of resources whose Update was invoked are the same for every        *)
(* topological order that sort may return.                                 *)
(***************************************************************************)
C36_ResultIndependentOfOrder ==
    kept.returned =>
        \A ord \in OrdersOfSort : ResultOf(RunOn(ord)) = ResultOf(kept)

(***************************************************************************)
(* C36, amended.  For a fixed valid resource set in which no resource      *)
(* depends on itself and fixed Update outcomes none of which is a failure, *)
(* the key set of the returned error, the returned status mapping and the  *)
(* set of resources whose Update was invoked are the same for every        *)
(* topological order that sort may return.                                 *)
(***************************************************************************)
C36_SameResultWithoutFailure ==
    (kept.returned /\ ~PlanHasFailure /\ ~SelfDependency) =>
        \A ord \in OrdersOfSort : ResultOf(RunOn(ord)) = ResultOf(kept)

\* sort may return another order, on which other waves are run
C36_Witness ==
    /\ kept.returned
    /\ ~PlanHasFailure
    /\ ~SelfDependency
    /\ DOMAIN kept.status # {}
    /\ \E ord \in OrdersOfSort :
           /\ ord # ordered
           /\ RunOn(ord).lists # kept.lists
           /\ Len(RunOn(ord).lists) > 1

\* resource i lists itself as a dependency
SelfDependent(i) == \E k \in DOMAIN Deps(i) : Deps(i)[k].FromResource = ResourceName(i)

\* a valid set for construction whose only cycles are self-dependencies
C37_SelfDependentSet ==
    /\ ~toDelete
    /\ ValidSet
    /\ ~CycleAmongTwoOrMore
    /\ \E i \in Idx : SelfDependent(i)

(***************************************************************************)
(* C37.  As claimed: a resource that lists itself as a dependency passes   *)
(* validation and is returned by sort; its Update is never invoked and     *)
(* construction Sync returns the exhaustion error.                         *)
(***************************************************************************)
C37_SelfDependencyGivesExhaustion ==
    C37_SelfDependentSet =>
        /\ pc # "panic"
        /\ \A i \in Idx : SelfDependent(i) =>
               /\ hist[i].calls = 0
               /\ pc \in {"loop", "wait", "done"} => i \in Range(ordered)
        /\ pc = "done" => err = ExhaustedError

(***************************************************************************)
(* C37, amended.  A resource that lists itself as a dependency passes      *)
(* validation and is returned by sort; its Update is never invoked and     *)
(* construction Sync never returns nil: it returns the exhaustion error    *)
(* when no Update has failed, and the error map of the failed resources    *)
(* when an Update of another resource has failed.                          *)
(***************************************************************************)
C37_SelfDependencyNeverNil ==
    C37_SelfDependentSet =>
        /\ pc # "panic"
        /\ \A i \in Idx : SelfDependent(i) =>
               /\ hist[i].calls = 0
               /\ pc \in {"loop", "wait", "done"} => i \in Range(ordered)
        /\ pc = "done" =>
               IF NoUpdateFailed
               THEN err = ExhaustedError
               ELSE err = ErrorMapOf({ResourceName(i) : i \in {j \in Idx : hist[j].result = "err"}})

\* Sync has returned the exhaustion error: the other resources are built,
\* the self-dependent one was never started
C37_Witness ==
    /\ C37_SelfDependentSet
    /\ pc = "done"
    /\ err = ExhaustedError
    /\ Cardinality(DOMAIN buildCache) = NumResources - 1
    /\ \E i \in Idx : SelfDependent(i) /\ hist[i].calls = 0 /\ hist[i].copies = 0

(***************************************************************************)
(* C38.  The waiter observes cancellation only during the delay between    *)
(* two attempts: WaitWithContext called with an already cancelled context  *)
(* still invokes the action once, it never returns before the action has   *)
(* been invoked, a cancellation error is returned only out of a delay, and *)
(* with MaxAttempts = 1 it returns nil or the exceeded-attempts error      *)
(* after one invocation and no delay.                                      *)
(***************************************************************************)
C38_Returns ==
    Returned =>
        /\ whist.calls >= 1
        /\ werr = "waiter context canceled" =>
               whist.sleeps >= 1 /\ whist.sleepErr # "nil"
        /\ waiter.MaxAttempts = 1 =>
               /\ werr \in {"nil", "exceeded wait attempts"}
               /\ whist.calls = 1
               /\ whist.sleeps = 0

NextSource(i) ==
    IF task[i].pc = "copy" /\ task[i].k <= Len(Deps(i))
    THEN {CacheGet(buildCache, Deps(i)[task[i].k].FromResource)}
    ELSE {}

(***************************************************************************)
(* C39.  During a wave, value propagation in one task never writes a       *)
(* resource field that another running task of the wave reads or writes:   *)
(* the fields of a resource change only in steps of that resource's own    *)
(* task, and a task reads only fields of resources that were built in an   *)
(* earlier wave and have no task in this one.                              *)
(***************************************************************************)
C39_WritesOwnFields ==
    \A j \in Idx : fields'[j] # fields[j] => Running(j) /\ task'[j] # task[j]

C39_ReadsBuiltResources ==
    \A i \in Idx : \A d \in NextSource(i) :
        /\ d \in Idx
        /\ d # i
        /\ task[d] = IdleTask
        /\ d \notin Range(execList)
        /\ hist[d].result = "ok"
        /\ hist[d].wave < wave

C39_NoSharedFieldInWave ==
    /\ [][C39_WritesOwnFields]_vars
    /\ []C39_ReadsBuiltResources

\* two tasks of one wave are about to copy from the same built resource, and
\* a third resource is the one they read
C39_Witness ==
    /\ pc = "wait"
    /\ \E i, j \in Idx :
           /\ i # j
           /\ NextSource(i) # {}
           /\ NextSource(i) = NextSource(j)
           /\ Valued(Deps(i)[task[i].k])
           /\ Valued(Deps(j)[task[j].k])

(***************************************************************************)
(* C40.  In the Factory/Builder variant of createSync, a nil error         *)
(* returned by Sync implies that Update of every builder was invoked       *)
(* exactly once, and that each builder with dependencies was updated after *)
(* the builders it depends on.                                             *)
(***************************************************************************)
C40_NilMeansEachBuilderUpdatedOnce ==
    (pc = "builders.done" /\ err = NilError) =>
        \A i \in Idx :
            /\ hist[i].calls = 1
            /\ hist[i].result = "ok"
            /\ \A k \in DOMAIN Deps(i) :
                   /\ hist[Deps(i)[k].FromResource].result = "ok"
                   /\ hist[Deps(i)[k].FromResource].wave < hist[i].wave

====
